---- MODULE Spec2Model ----
(***************************************************************************)
(* The sprite render pipeline of crates/bevy_sprite/src/render/mod.rs:      *)
(* extract_sprite_events, extract_sprites, prepare_sprites (the batching    *)
(* loop, one step per sprite) and queue_sprites.                            *)
(*                                                                          *)
(* Conventions                                                              *)
(*   - Option<T> is a sequence: <<>> is None, <<v>> is Some(v).             *)
(*   - Vec2 is a pair <<x, y>>.  Quad corner positions and anchors are in   *)
(*     units of 1/2, so QUAD_VERTEX_POSITIONS is integral.                  *)
(*   - A HandleId is a natural number, ordered as HandleId's derived Ord.   *)
(*   - A Range<u32> start..end is the pair <<start, end>> (half-open).      *)
(***************************************************************************)
EXTENDS Integers, Sequences, FiniteSets, TLC

(***************************************************************************)
(* Bounds of the model                                                      *)
(***************************************************************************)
\* longest list of extracted sprites a single prepare_sprites run is given
MaxSprites == 3
\* transform.translation.z ranges over 1..MaxZ
MaxZ == 2
\* texture identities are 1..NumHandles
NumHandles == 2
\* number of frames the frame pipeline runs
MaxFrames == 2
\* most sprite entities in the main world in one frame of the frame pipeline
MaxEntities == 1
\* most asset events extracted in one frame
MaxEvents == 1
\* most views (render phases) in the render world
MaxViews == 1
\* most entities in UiStack.uinodes
MaxNodes == 3

(***************************************************************************)
(* Program constants                                                        *)
(***************************************************************************)
\* HandleId::Id(Uuid::nil(), u64::MAX), the "impossible starting value"
NilHandle == 0
\* SpritePipelineKey::COLORED
COLORED == 1
\* SpritePipelineKey::MSAA_MASK_BITS
MSAA_MASK_BITS == 63
\* SpritePipelineKey::MSAA_SHIFT_BITS
MSAA_SHIFT_BITS == 26

\* QUAD_INDICES: the two triangles of a quad (0-based corner indices)
QUAD_INDICES == <<0, 2, 3, 0, 1, 2>>

\* QUAD_VERTEX_POSITIONS, in units of 1/2
QUAD_VERTEX_POSITIONS == << <<-1, -1>>, <<1, -1>>, <<1, 1>>, <<-1, 1>> >>

\* QUAD_UVS
QUAD_UVS == << <<0, 1>>, <<1, 1>>, <<1, 0>>, <<0, 0>> >>

\* Vec2::ZERO
Vec2ZERO == <<0, 0>>

\* Color::WHITE and one other colour; a Color is compared with derived PartialEq
WHITE == [space |-> "Rgba", rgba |-> <<1, 1, 1, 1>>]

RED == [space |-> "Rgba", rgba |-> <<1, 0, 0, 1>>]

Colors == {WHITE, RED}

Handles == 1..NumHandles

ZValues == 1..MaxZ

VARIABLES
    extracted_sprites,      \* ExtractedSprites.sprites
    gpu_images,             \* RenderAssets<Image>: resident HandleId -> GpuImage
    vertices,               \* SpriteMeta.vertices
    colored_vertices,       \* SpriteMeta.colored_vertices
    view_bind_group,        \* SpriteMeta.view_bind_group
    sprite_batches,         \* the SpriteBatch entities, in spawn order
    pc,                     \* position in the frame / in prepare_sprites /
                            \* in ui_picking
    current_batch_handle,   \* locals of prepare_sprites
    current_image_size,
    current_batch_colored,
    z_order,
    white_start,
    white_end,
    colored_start,
    colored_end,
    log,                    \* history: one entry per sprite drained by the loop
    events,                 \* SpriteAssetEvents.images
    image_bind_groups,      \* ImageBindGroups.values
    view_uniforms,          \* ViewUniforms.uniforms.binding(): Option
    phases,                 \* one RenderPhase<Transparent2d> per view
    msaa,                   \* Msaa.samples
    pipelines,              \* SpecializedRenderPipelines: the keys specialized
    frame,                  \* number of the current frame
    bind_groups_before,     \* history: ImageBindGroups.values when the latest
                            \* queue_sprites began
    bind_groups_made,       \* history: the texture of every create_bind_group
                            \* call of the latest queue_sprites, in call order
    prepare_input,          \* history: ExtractedSprites.sprites when the latest
                            \* prepare_sprites began
    world,                  \* history: the main world the latest extract_sprites
                            \* read, <<>> before the first
    extract_entry,          \* history: ExtractedSprites.sprites when the latest
                            \* extract_sprites began
    ui_world,               \* what ui_picking reads: pointers, cameras, the default
                            \* UI camera, UiScale, UiStack and the node query
    pointer_pos_by_camera,  \* locals of ui_picking
    hit_nodes,
    uinodes_left,           \* the part of ui_stack.uinodes.iter().rev() to come
    output                  \* the PointerHits events sent, in order

prepare_locals == <<current_batch_handle, current_image_size, current_batch_colored,
                    z_order, white_start, white_end, colored_start, colored_end>>

sprite_meta == <<vertices, colored_vertices, view_bind_group>>

queue_state == <<events, image_bind_groups, view_uniforms, phases, msaa,
                 pipelines, frame>>

history == <<log, bind_groups_before, bind_groups_made, prepare_input, world,
             extract_entry>>

picking == <<ui_world, pointer_pos_by_camera, hit_nodes, uinodes_left, output>>

vars == <<extracted_sprites, gpu_images, sprite_meta, sprite_batches, pc,
          prepare_locals, history, queue_state, picking>>

\* The picking variables of a run in which ui_picking is not called
NoPicking ==
    /\ ui_world = <<>>
    /\ pointer_pos_by_camera = <<>>
    /\ hit_nodes = <<>>
    /\ uinodes_left = <<>>
    /\ output = <<>>

(***************************************************************************)
(* Data                                                                     *)
(***************************************************************************)
\* An ExtractedSprite whose transform is the translation (0, 0, z)
ExtractedSprite(z, handle, color, rect, custom_size, flip_x, flip_y, anchor) ==
    [z |-> z, image_handle_id |-> handle, color |-> color, rect |-> rect,
     custom_size |-> custom_size, flip_x |-> flip_x, flip_y |-> flip_y,
     anchor |-> anchor]

\* The GpuImage of texture h: every texture has its own size and view
GpuImage(h) == [size |-> <<8 * h, 4 * h>>, texture_view |-> h]

\* The lookups RenderAssets<Image> can be: any set of resident textures
GpuImageLookups == {[h \in S |-> GpuImage(h)] : S \in SUBSET Handles}

\* A lookup that answers a default image for a texture it does not hold
GpuImagesGetDefault(images, h) ==
    IF h \in DOMAIN images THEN <<images[h]>>
    ELSE <<[size |-> Vec2ZERO, texture_view |-> NilHandle]>>

\* RenderAssets::get
GpuImagesGet(images, h) == IF h \in DOMAIN images THEN <<images[h]>> ELSE <<>>

\* TextureAtlas.textures of the one atlas: two sub-rectangles side by side
AtlasRects ==
    <<[min |-> <<0, 0>>, max |-> <<2, 2>>], [min |-> <<2, 0>>, max |-> <<4, 2>>]>>

\* Rect::size
RectSize(rect) == <<rect.max[1] - rect.min[1], rect.max[2] - rect.min[2]>>

(***************************************************************************)
(* prepare_sprites: the sort                                                *)
(***************************************************************************)
\* A comparator that orders by z alone
CompareByZOnly(a, b) ==
    IF a.z < b.z THEN -1
    ELSE IF a.z > b.z THEN 1
    ELSE 0

\* The comparator of sort_unstable_by: -1 Less, 0 Equal, 1 Greater
CompareSprites(a, b) ==
    IF a.z < b.z THEN -1
    ELSE IF a.z > b.z THEN 1
    ELSE IF a.image_handle_id < b.image_handle_id THEN -1
    ELSE IF a.image_handle_id > b.image_handle_id THEN 1
    ELSE 0

\* The orders of the positions idx of s that the comparator accepts
RECURSIVE SortedOrders(_, _)
SortedOrders(s, idx) ==
    IF idx = {} THEN {<<>>}
    ELSE UNION {{<<i>> \o rest : rest \in SortedOrders(s, idx \ {i})} :
                i \in {j \in idx : \A k \in idx : CompareSprites(s[j], s[k]) <= 0}}

\* sort_unstable_by: every order of s the comparator accepts; which one the
\* unstable sort produces for elements that compare Equal is unspecified
SortUnstableBy(s) ==
    {[i \in 1..Len(s) |-> s[o[i]]] : o \in SortedOrders(s, 1..Len(s))}

(***************************************************************************)
(* prepare_sprites: per-sprite geometry                                     *)
(***************************************************************************)
\* uvs = [uvs[1], uvs[0], uvs[3], uvs[2]]
FlipX(uvs) == <<uvs[2], uvs[1], uvs[4], uvs[3]>>

\* A vertical flip that rotates the corners
RotateCorners(uvs) == <<uvs[2], uvs[3], uvs[4], uvs[1]>>

\* uvs = [uvs[3], uvs[2], uvs[1], uvs[0]]
FlipY(uvs) == <<uvs[4], uvs[3], uvs[2], uvs[1]>>

\* The 4 corner UVs after the flips
FlippedUvs(flip_x, flip_y) ==
    LET uvs1 == IF flip_x THEN FlipX(QUAD_UVS) ELSE QUAD_UVS
    IN  IF flip_y THEN FlipY(uvs1) ELSE uvs1

\* The remap of 4 corner UVs by an optional rect; a coordinate is the fraction
\* <<num, den>>: (rect.min + uv * rect_size) / current_image_size with a rect
RemapUvs(uvs, opt_rect, image_size) ==
    IF opt_rect # <<>>
    THEN LET rect == opt_rect[1]
             rect_size == RectSize(rect)
         IN  [i \in 1..4 |->
                << <<rect.min[1] + uvs[i][1] * rect_size[1], image_size[1]>>,
                   <<rect.min[2] + uvs[i][2] * rect_size[2], image_size[2]>> >>]
    ELSE [i \in 1..4 |-> << <<uvs[i][1], 1>>, <<uvs[i][2], 1>> >>]

\* The 4 corner UVs of a sprite
SpriteUvs(sprite, image_size) ==
    RemapUvs(FlippedUvs(sprite.flip_x, sprite.flip_y), sprite.rect, image_size)

\* A quad size in which the rect's size wins over the custom size
QuadSizeRectLast(sprite, image_size) ==
    LET by_custom == IF sprite.custom_size # <<>> THEN sprite.custom_size[1]
                     ELSE image_size
    IN  IF sprite.rect # <<>> THEN RectSize(sprite.rect[1]) ELSE by_custom

\* quad_size: the texture size, else the rect size, else the custom size
QuadSize(sprite, image_size) ==
    LET by_rect == IF sprite.rect # <<>> THEN RectSize(sprite.rect[1]) ELSE image_size
    IN  IF sprite.custom_size # <<>> THEN sprite.custom_size[1] ELSE by_rect

\* transform.mul_vec3(((quad_pos - anchor) * quad_size).extend(0.))
QuadPositions(sprite, quad_size) ==
    [i \in 1..4 |->
        <<(QUAD_VERTEX_POSITIONS[i][1] - sprite.anchor[1]) * quad_size[1],
          (QUAD_VERTEX_POSITIONS[i][2] - sprite.anchor[2]) * quad_size[2],
          sprite.z>>]

\* Color::as_linear_rgba_f32 of an Rgba colour whose channels are 0 or 1
\* (the sRGB transfer function fixes 0 and 1)
AsLinearRgbaF32(color) == color.rgba

\* One SpriteVertex per corner of the quad instead of one per index
SpriteVerticesPerCorner(sprite, image_size) ==
    LET uvs == SpriteUvs(sprite, image_size)
        positions == QuadPositions(sprite, QuadSize(sprite, image_size))
    IN  [k \in 1..4 |-> [position |-> positions[k], uv |-> uvs[k]]]

\* The 6 SpriteVertex pushed for a sprite
SpriteVertices(sprite, image_size) ==
    LET uvs == SpriteUvs(sprite, image_size)
        positions == QuadPositions(sprite, QuadSize(sprite, image_size))
    IN  [k \in 1..Len(QUAD_INDICES) |->
            [position |-> positions[QUAD_INDICES[k] + 1],
             uv |-> uvs[QUAD_INDICES[k] + 1]]]

\* The 6 ColoredSpriteVertex pushed for a sprite
ColoredSpriteVertices(sprite, image_size) ==
    LET uvs == SpriteUvs(sprite, image_size)
        positions == QuadPositions(sprite, QuadSize(sprite, image_size))
    IN  [k \in 1..Len(QUAD_INDICES) |->
            [position |-> positions[QUAD_INDICES[k] + 1],
             uv |-> uvs[QUAD_INDICES[k] + 1],
             color |-> AsLinearRgbaF32(sprite.color)]]

(***************************************************************************)
(* prepare_sprites: the batching loop                                       *)
(***************************************************************************)
\* let colored = extracted_sprite.color != Color::WHITE
IsColored(sprite) == sprite.color # WHITE

\* the test that opens a new batch
IsBoundary(sprite, handle, colored) ==
    sprite.image_handle_id # handle \/ IsColored(sprite) # colored

\* A range test that lets empty ranges through
AlwaysEmit(start, end) == TRUE

\* if *start != *end
NonEmptyRange(start, end) == start # end

SpriteBatch(start, end, handle, colored, z) ==
    [range |-> <<start, end>>, image_handle_id |-> handle, colored |-> colored,
     z_order |-> z]

\* A clear that leaves the values in the buffer
ClearNothing(values) == values

\* BufferVec::clear as called on both vertex buffers
Clear(values) == <<>>

\* Clearing the vertex buffers, sorting, and the starting values of the locals
PrepareBegin ==
    /\ pc = "prepare"
    /\ vertices' = Clear(vertices)
    /\ colored_vertices' = Clear(colored_vertices)
    /\ \E sorted \in SortUnstableBy(extracted_sprites) : extracted_sprites' = sorted
    /\ current_batch_handle' = NilHandle
    /\ current_image_size' = Vec2ZERO
    /\ current_batch_colored' = FALSE
    /\ z_order' = 0
    /\ white_start' = 0
    /\ white_end' = 0
    /\ colored_start' = 0
    /\ colored_end' = 0
    /\ log' = <<>>
    /\ prepare_input' = extracted_sprites
    /\ pc' = "loop"
    /\ UNCHANGED <<gpu_images, view_bind_group, sprite_batches, queue_state,
                   bind_groups_before, bind_groups_made, world, extract_entry>>
    /\ UNCHANGED picking

\* The buffers, the batches spawned and the locals, as one value
LoopState ==
    [vertices |-> vertices, colored_vertices |-> colored_vertices,
     sprite_batches |-> sprite_batches,
     current_batch_handle |-> current_batch_handle,
     current_image_size |-> current_image_size,
     current_batch_colored |-> current_batch_colored, z_order |-> z_order,
     white_start |-> white_start, white_end |-> white_end,
     colored_start |-> colored_start, colored_end |-> colored_end]

\* The values PrepareBegin leaves
StartState ==
    [vertices |-> <<>>, colored_vertices |-> <<>>, sprite_batches |-> <<>>,
     current_batch_handle |-> NilHandle, current_image_size |-> Vec2ZERO,
     current_batch_colored |-> FALSE, z_order |-> 0,
     white_start |-> 0, white_end |-> 0, colored_start |-> 0, colored_end |-> 0]

\* Whether the loop body skips the sprite: a boundary whose lookup fails
SkipsSprite(st, extracted_sprite, images) ==
    /\ IsBoundary(extracted_sprite, st.current_batch_handle, st.current_batch_colored)
    /\ GpuImagesGet(images, extracted_sprite.image_handle_id) = <<>>

\* The body of `for extracted_sprite in extracted_sprites.sprites.drain(..)`
LoopBody(st, extracted_sprite, images) ==
    LET colored == IsColored(extracted_sprite)
        boundary == IsBoundary(extracted_sprite, st.current_batch_handle,
                               st.current_batch_colored)
        gpu_image == GpuImagesGet(images, extracted_sprite.image_handle_id)
    IN  IF SkipsSprite(st, extracted_sprite, images)
        THEN \* We skip loading images
             st
        ELSE LET image_size == IF boundary THEN gpu_image[1].size
                               ELSE st.current_image_size
                 handle == IF boundary THEN extracted_sprite.image_handle_id
                           ELSE st.current_batch_handle
                 \* [start, end] is chosen by the colour mode of the new sprite
                 start == IF colored THEN st.colored_start ELSE st.white_start
                 end == IF colored THEN st.colored_end ELSE st.white_end
                 emit == boundary /\ NonEmptyRange(start, end)
                 start1 == IF emit THEN end ELSE start
             IN  [vertices |->
                     IF colored THEN st.vertices
                     ELSE st.vertices \o SpriteVertices(extracted_sprite, image_size),
                  colored_vertices |->
                     IF colored
                     THEN st.colored_vertices \o
                             ColoredSpriteVertices(extracted_sprite, image_size)
                     ELSE st.colored_vertices,
                  sprite_batches |->
                     IF emit
                     THEN Append(st.sprite_batches,
                                 SpriteBatch(start, end, handle, colored, st.z_order))
                     ELSE st.sprite_batches,
                  current_batch_handle |-> handle,
                  current_image_size |-> image_size,
                  current_batch_colored |-> colored,
                  z_order |-> extracted_sprite.z,
                  white_start |-> IF colored THEN st.white_start ELSE start1,
                  white_end |-> IF colored THEN st.white_end
                                ELSE st.white_end + Len(QUAD_INDICES),
                  colored_start |-> IF colored THEN start1 ELSE st.colored_start,
                  colored_end |-> IF colored THEN st.colored_end + Len(QUAD_INDICES)
                                  ELSE st.colored_end]

\* The batches once the code after the loop has spawned the last batch
LoopEnd(st) ==
    LET start == IF st.current_batch_colored THEN st.colored_start ELSE st.white_start
        end == IF st.current_batch_colored THEN st.colored_end ELSE st.white_end
    IN  IF NonEmptyRange(start, end)
        THEN Append(st.sprite_batches,
                    SpriteBatch(start, end, st.current_batch_handle,
                                st.current_batch_colored, st.z_order))
        ELSE st.sprite_batches

\* The loop over a whole sorted list
RECURSIVE RunLoop(_, _, _)
RunLoop(st, sprites, images) ==
    IF sprites = <<>> THEN st
    ELSE RunLoop(LoopBody(st, Head(sprites), images), Tail(sprites), images)

\* What prepare_sprites leaves when its sort leaves the order sorted
PrepareOutcome(sorted, images) ==
    LET st == RunLoop(StartState, sorted, images)
    IN  [sprite_batches |-> LoopEnd(st), vertices |-> st.vertices,
         colored_vertices |-> st.colored_vertices]

\* One iteration of `for extracted_sprite in extracted_sprites.sprites.drain(..)`
PrepareStep ==
    /\ pc = "loop"
    /\ extracted_sprites # <<>>
    /\ LET extracted_sprite == Head(extracted_sprites)
           colored == IsColored(extracted_sprite)
           st == LoopBody(LoopState, extracted_sprite, gpu_images)
           skipped == SkipsSprite(LoopState, extracted_sprite, gpu_images)
       IN  /\ extracted_sprites' = Tail(extracted_sprites)
           /\ pc' = "loop"
           /\ vertices' = st.vertices
           /\ colored_vertices' = st.colored_vertices
           /\ sprite_batches' = st.sprite_batches
           /\ current_batch_handle' = st.current_batch_handle
           /\ current_image_size' = st.current_image_size
           /\ current_batch_colored' = st.current_batch_colored
           /\ z_order' = st.z_order
           /\ white_start' = st.white_start
           /\ white_end' = st.white_end
           /\ colored_start' = st.colored_start
           /\ colored_end' = st.colored_end
           /\ log' = Append(log, [sprite |-> extracted_sprite,
                                  written |-> ~skipped, colored |-> colored,
                                  first |-> IF skipped THEN 0
                                            ELSE IF colored THEN colored_end
                                            ELSE white_end])
           /\ UNCHANGED <<gpu_images, view_bind_group, queue_state,
                          bind_groups_before, bind_groups_made, prepare_input,
                          world, extract_entry>>
    /\ UNCHANGED picking

\* After the loop: the last batch, then write_buffer of both vertex buffers
PrepareFinish ==
    /\ pc = "loop"
    /\ extracted_sprites = <<>>
    /\ sprite_batches' = LoopEnd(LoopState)
    /\ pc' = "prepared"
    /\ UNCHANGED <<extracted_sprites, gpu_images, sprite_meta, prepare_locals,
                   history, queue_state>>
    /\ UNCHANGED picking

(***************************************************************************)
(* extract_sprite_events and extract_sprites                                *)
(***************************************************************************)
AssetEvent(kind, handle) == [kind |-> kind, handle |-> handle]

\* extract_sprite_events: the list is cleared, then every event read from the
\* main world is pushed as the same variant holding a weak handle
ExtractSpriteEvents(image_event_lists) ==
    /\ pc = "extract_events"
    /\ \E image_events \in image_event_lists :
          events' = [i \in 1..Len(image_events) |->
                        AssetEvent(image_events[i].kind, image_events[i].handle)]
    /\ pc' = "extract_sprites"
    /\ UNCHANGED <<extracted_sprites, gpu_images, sprite_meta, sprite_batches,
                   prepare_locals, history, image_bind_groups, view_uniforms,
                   phases, msaa, pipelines, frame>>
    /\ UNCHANGED picking

\* The records the first loop of extract_sprites appends for sprite_query
RECURSIVE ExtractPlain(_)
ExtractPlain(sprite_query) ==
    IF sprite_query = <<>> THEN <<>>
    ELSE LET e == Head(sprite_query)
         IN  (IF ~e.is_visible THEN <<>>
              ELSE <<ExtractedSprite(e.z, e.handle, e.sprite.color, <<>>,
                                     e.sprite.custom_size, e.sprite.flip_x,
                                     e.sprite.flip_y, e.sprite.anchor)>>)
             \o ExtractPlain(Tail(sprite_query))

\* The positions of atlas_query at which the second loop indexes
\* texture_atlas.textures out of bounds
PanickingPositions(atlas_query, texture_atlases) ==
    {i \in 1..Len(atlas_query) :
        /\ atlas_query[i].is_visible
        /\ atlas_query[i].handle \in DOMAIN texture_atlases
        /\ atlas_query[i].sprite.index >=
              Len(texture_atlases[atlas_query[i].handle].textures)}

\* Whether the second loop indexes texture_atlas.textures out of bounds
AtlasIndexPanics(atlas_query, texture_atlases) ==
    PanickingPositions(atlas_query, texture_atlases) # {}

\* The entities the second loop gets through before it panics
BeforePanic(atlas_query, texture_atlases) ==
    LET panicking == PanickingPositions(atlas_query, texture_atlases)
        first == CHOOSE i \in panicking : \A j \in panicking : i <= j
    IN  SubSeq(atlas_query, 1, first - 1)

\* A record that carries the identity of the atlas asset as its texture identity
AtlasRecordOfAtlasHandle(e, texture_atlas) ==
    ExtractedSprite(e.z, e.handle, e.sprite.color,
                    <<texture_atlas.textures[e.sprite.index + 1]>>,
                    e.sprite.custom_size, e.sprite.flip_x, e.sprite.flip_y,
                    e.sprite.anchor)

\* The ExtractedSprite of a visible atlas sprite whose atlas resolved
AtlasRecord(e, texture_atlas) ==
    ExtractedSprite(e.z, texture_atlas.texture, e.sprite.color,
                    <<texture_atlas.textures[e.sprite.index + 1]>>,
                    e.sprite.custom_size, e.sprite.flip_x, e.sprite.flip_y,
                    e.sprite.anchor)

\* The records the second loop of extract_sprites appends for atlas_query
RECURSIVE ExtractAtlas(_, _)
ExtractAtlas(atlas_query, texture_atlases) ==
    IF atlas_query = <<>> THEN <<>>
    ELSE LET e == Head(atlas_query)
         IN  (IF ~e.is_visible \/ e.handle \notin DOMAIN texture_atlases THEN <<>>
              ELSE <<AtlasRecord(e, texture_atlases[e.handle])>>)
             \o ExtractAtlas(Tail(atlas_query), texture_atlases)

\* extract_sprites on a main world drawn from worlds
ExtractSprites(worlds) ==
    /\ pc = "extract_sprites"
    /\ \E main_world \in worlds :
          /\ world' = <<main_world>>
          /\ IF AtlasIndexPanics(main_world.atlas_query, main_world.texture_atlases)
             THEN /\ extracted_sprites' =
                        extracted_sprites \o ExtractPlain(main_world.sprite_query)
                           \o ExtractAtlas(BeforePanic(main_world.atlas_query,
                                                       main_world.texture_atlases),
                                           main_world.texture_atlases)
                  /\ pc' = "panic"
             ELSE /\ extracted_sprites' =
                        extracted_sprites \o ExtractPlain(main_world.sprite_query)
                           \o ExtractAtlas(main_world.atlas_query,
                                           main_world.texture_atlases)
                  /\ pc' = "extracted"
    /\ extract_entry' = extracted_sprites
    /\ UNCHANGED <<gpu_images, sprite_meta, sprite_batches, prepare_locals,
                   log, bind_groups_before, bind_groups_made, prepare_input,
                   queue_state>>
    /\ UNCHANGED picking

(***************************************************************************)
(* SpritePipelineKey                                                        *)
(***************************************************************************)
\* A u32 of flags is the set of the positions 0..31 of its set bits

\* The set bits of x, 0 <= x < 2^8
BitsOf(x) == {i \in 0..7 : (x \div (2 ^ i)) % 2 = 1}

\* The number whose set bits are bits
RECURSIVE ValueOf(_)
ValueOf(bits) ==
    IF bits = {} THEN 0
    ELSE LET i == CHOOSE j \in bits : TRUE IN (2 ^ i) + ValueOf(bits \ {i})

\* x << n, in 32 bits
ShiftLeft(bits, n) == {i + n : i \in {j \in bits : j + n < 32}}

\* x >> n
ShiftRight(bits, n) == {i - n : i \in {j \in bits : j >= n}}

\* const COLORED = (1 << 0)
COLORED_BITS == BitsOf(COLORED)

\* const MSAA_RESERVED_BITS = MSAA_MASK_BITS << MSAA_SHIFT_BITS
MSAA_RESERVED_BITS == ShiftLeft(BitsOf(MSAA_MASK_BITS), MSAA_SHIFT_BITS)

\* SpritePipelineKey::from_bits: None when a bit outside the declared flags is set
FromBits(bits) ==
    IF bits \subseteq (COLORED_BITS \cup MSAA_RESERVED_BITS) THEN <<bits>> ELSE <<>>

\* A key that stores the sample count itself
FromMsaaSamplesNoOffset(msaa_samples) ==
    FromBits(ShiftLeft(BitsOf(msaa_samples % (MSAA_MASK_BITS + 1)),
                       MSAA_SHIFT_BITS))

\* SpritePipelineKey::from_msaa_samples before its unwrap: msaa_samples - 1 wraps
\* in 32 bits, and 2^32 is a multiple of MSAA_MASK_BITS + 1
FromMsaaSamples(msaa_samples) ==
    FromBits(ShiftLeft(BitsOf((msaa_samples - 1) % (MSAA_MASK_BITS + 1)),
                       MSAA_SHIFT_BITS))

\* SpritePipelineKey::msaa_samples
MsaaSamples(bits) ==
    ValueOf(ShiftRight(bits, MSAA_SHIFT_BITS) \cap BitsOf(MSAA_MASK_BITS)) + 1

\* key | SpritePipelineKey::COLORED
WithColored(bits) == bits \cup COLORED_BITS

\* SpritePipeline::specialize: the vertex formats, the shader defs and the
\* sample count of the descriptor made for a key
SpritePipelineSpecialize(key) ==
    [formats |-> <<"Float32x3", "Float32x2">> \o
                    (IF COLORED_BITS \subseteq key THEN <<"Float32x4">> ELSE <<>>),
     shader_defs |-> IF COLORED_BITS \subseteq key THEN <<"COLORED">> ELSE <<>>,
     count |-> MsaaSamples(key)]

(***************************************************************************)
(* queue_sprites                                                            *)
(***************************************************************************)
\* The handles the Modified events alone name
RemovedOnModifiedOnly(images) ==
    {images[i].handle : i \in {j \in 1..Len(images) : images[j].kind = "Modified"}}

\* The handles the Modified and Removed events of a list name
InvalidatedHandles(images) ==
    {images[i].handle :
        i \in {j \in 1..Len(images) : images[j].kind \in {"Modified", "Removed"}}}

\* A cache that drops the entry of every event's handle, Created included
AfterEventsOfAnyKind(cache, images) ==
    [h \in (DOMAIN cache) \ {images[i].handle : i \in 1..Len(images)} |-> cache[h]]

\* The cache after `for event in &events.images`
AfterEvents(cache, images) ==
    [h \in (DOMAIN cache) \ InvalidatedHandles(images) |-> cache[h]]

\* render_device.create_bind_group for a texture; `created` tells bind groups
\* made in different frames apart
MaterialBindGroup(gpu_image, now) ==
    [texture_view |-> gpu_image.texture_view, created |-> now]

\* An item that takes the uncolored pipeline whatever the batch's flag
PhaseItemOnePipeline(entity, sprite_batch, pipeline, colored_pipeline) ==
    [draw_function |-> "DrawSprite",
     pipeline |-> pipeline,
     entity |-> entity,
     sort_key |-> sprite_batch.z_order,
     batch_range |-> <<sprite_batch.range>>]

\* The Transparent2d item added for batch number entity
PhaseItem(entity, sprite_batch, pipeline, colored_pipeline) ==
    [draw_function |-> "DrawSprite",
     pipeline |-> IF sprite_batch.colored THEN colored_pipeline ELSE pipeline,
     entity |-> entity,
     sort_key |-> sprite_batch.z_order,
     batch_range |-> <<sprite_batch.range>>]

\* `for (entity, sprite_batch) in sprite_batches.iter()` for one view, from batch
\* number entity on; st = [cache, items, made, ok], made the textures
\* create_bind_group was called for, ok = FALSE once an unwrap failed
RECURSIVE QueueBatches(_, _, _, _, _, _, _)
QueueBatches(st, batches, entity, images, pipeline, colored_pipeline, now) ==
    IF entity > Len(batches) \/ ~st.ok THEN st
    ELSE LET sprite_batch == batches[entity]
             h == sprite_batch.image_handle_id
             gpu_image == GpuImagesGet(images, h)
         IN  IF h \notin DOMAIN st.cache /\ gpu_image = <<>>
             THEN [st EXCEPT !.ok = FALSE]
             ELSE QueueBatches(
                    [cache |-> IF h \in DOMAIN st.cache THEN st.cache
                               ELSE [k \in (DOMAIN st.cache) \cup {h} |->
                                        IF k = h
                                        THEN MaterialBindGroup(gpu_image[1], now)
                                        ELSE st.cache[k]],
                     items |-> Append(st.items,
                                      PhaseItem(entity, sprite_batch, pipeline,
                                                colored_pipeline)),
                     made |-> IF h \in DOMAIN st.cache THEN st.made
                              ELSE Append(st.made, h),
                     ok |-> TRUE],
                    batches, entity + 1, images, pipeline, colored_pipeline, now)

\* `for mut transparent_phase in &mut views`, from view number v on;
\* st = [cache, phases, made, ok]
RECURSIVE QueueViews(_, _, _, _, _, _, _)
QueueViews(st, v, batches, images, pipeline, colored_pipeline, now) ==
    IF v > Len(st.phases) \/ ~st.ok THEN st
    ELSE LET r == QueueBatches([cache |-> st.cache, items |-> st.phases[v],
                                made |-> st.made, ok |-> TRUE],
                               batches, 1, images, pipeline, colored_pipeline, now)
         IN  QueueViews([cache |-> r.cache,
                         phases |-> [st.phases EXCEPT ![v] = r.items],
                         made |-> r.made,
                         ok |-> r.ok],
                        v + 1, batches, images, pipeline, colored_pipeline, now)

\* A binding handed out whether or not the uniform buffer holds one
UniformsBindingOrDefault(uniforms) ==
    IF uniforms = <<>> THEN <<"default_binding">> ELSE uniforms

\* view_uniforms.uniforms.binding(): None while no view uniform was written
UniformsBinding(uniforms) == uniforms

\* The view bind group made from a binding; `created` tells bind groups made in
\* different frames apart
ViewBindGroup(view_binding, now) == [resource |-> view_binding, created |-> now]

\* pipelines.specialize: the specialized keys once key was asked for; the
\* pipeline id returned for a key is identified with the key
Specialize(specialized, key) == specialized \cup {key}

QueueSprites ==
    /\ pc = "prepared"
    /\ LET cache == AfterEvents(image_bind_groups, events)
           view_binding == UniformsBinding(view_uniforms)
       IN  IF view_binding # <<>>
           THEN LET key == FromMsaaSamples(msaa)
                IN  /\ view_bind_group' = <<ViewBindGroup(view_binding[1], frame)>>
                    /\ IF key = <<>>
                       THEN /\ pc' = "panic"
                            /\ image_bind_groups' = cache
                            /\ bind_groups_made' = <<>>
                            /\ UNCHANGED <<phases, pipelines>>
                       ELSE LET pipeline == key[1]
                                colored_pipeline == WithColored(key[1])
                                r == QueueViews([cache |-> cache, phases |-> phases,
                                                 made |-> <<>>, ok |-> TRUE],
                                                1, sprite_batches, gpu_images,
                                                pipeline, colored_pipeline, frame)
                            IN  /\ pipelines' =
                                      Specialize(Specialize(pipelines, pipeline),
                                                 colored_pipeline)
                                /\ image_bind_groups' = r.cache
                                /\ bind_groups_made' = r.made
                                /\ phases' = r.phases
                                /\ pc' = IF r.ok THEN "queued" ELSE "panic"
           ELSE /\ image_bind_groups' = cache
                /\ bind_groups_made' = <<>>
                /\ pc' = "queued"
                /\ UNCHANGED <<view_bind_group, phases, pipelines>>
    /\ bind_groups_before' = image_bind_groups
    /\ UNCHANGED <<extracted_sprites, gpu_images, vertices, colored_vertices,
                   sprite_batches, prepare_locals, log, events, view_uniforms, msaa,
                   frame, prepare_input, world, extract_entry>>
    /\ UNCHANGED picking

(***************************************************************************)
(* The render commands of DrawSprite                                        *)
(***************************************************************************)
\* SetSpriteViewBindGroup: the bind group it unwraps, <<>> when the unwrap fails
SetSpriteViewBindGroup(meta_view_bind_group) == meta_view_bind_group

\* SetSpriteTextureBindGroup on the batch entity of an item: the bind group it
\* unwraps, <<>> when an unwrap fails
SetSpriteTextureBindGroup(item, batches, cache) ==
    IF item.entity \notin DOMAIN batches THEN <<>>
    ELSE LET sprite_batch == batches[item.entity]
         IN  IF sprite_batch.image_handle_id \in DOMAIN cache
             THEN <<cache[sprite_batch.image_handle_id]>>
             ELSE <<>>

\* A draw that binds the uncolored vertex buffer whatever the batch's flag
DrawSpriteBatchUncolored(item, batches) ==
    [colored_buffer |-> FALSE,
     range |-> item.batch_range[1]]

\* DrawSpriteBatch: the vertex buffer and the index range of the draw call
DrawSpriteBatch(item, batches) ==
    [colored_buffer |-> batches[item.entity].colored,
     range |-> item.batch_range[1]]

(***************************************************************************)
(* Specification of one run of prepare_sprites on any extracted list        *)
(***************************************************************************)
\* The sprites a run is given: full-texture quads anchored at the centre
PlainSprites ==
    {ExtractedSprite(z, h, c, <<>>, <<>>, FALSE, FALSE, <<0, 0>>) :
        z \in ZValues, h \in Handles, c \in Colors}

\* A total order on PlainSprites, to list each multiset of sprites once
SpriteRank(s) ==
    (s.z * (NumHandles + 1) + s.image_handle_id) * 2 + (IF IsColored(s) THEN 1 ELSE 0)

\* The extracted lists, up to the order prepare_sprites discards by sorting
\* first; SortUnstableBy then yields every order the sort can leave
RECURSIVE SpriteLists(_)
SpriteLists(n) ==
    IF n = 0 THEN {<<>>}
    ELSE {Append(p[1], p[2]) :
            p \in {q \in SpriteLists(n - 1) \X PlainSprites :
                     q[1] = <<>> \/ SpriteRank(q[1][n - 1]) <= SpriteRank(q[2])}}

ExtractedLists == UNION {SpriteLists(n) : n \in 0..MaxSprites}

\* The same and the lists one sprite longer
LongExtractedLists == ExtractedLists \cup SpriteLists(MaxSprites + 1)

\* The state prepare_sprites is entered in, but for the extracted list
InitRender ==
    /\ gpu_images \in GpuImageLookups
    /\ vertices = <<>>
    /\ colored_vertices = <<>>
    /\ view_bind_group = <<>>
    /\ sprite_batches = <<>>
    /\ pc = "prepare"
    /\ current_batch_handle = NilHandle
    /\ current_image_size = Vec2ZERO
    /\ current_batch_colored = FALSE
    /\ z_order = 0
    /\ white_start = 0
    /\ white_end = 0
    /\ colored_start = 0
    /\ colored_end = 0
    /\ log = <<>>
    /\ events = <<>>
    /\ image_bind_groups = <<>>
    /\ view_uniforms = <<>>
    /\ phases = <<>>
    /\ msaa = 4
    /\ pipelines = {}
    /\ frame = 1
    /\ bind_groups_before = <<>>
    /\ bind_groups_made = <<>>
    /\ prepare_input = <<>>
    /\ world = <<>>
    /\ extract_entry = <<>>
    /\ NoPicking

Init == extracted_sprites \in ExtractedLists /\ InitRender

Next == PrepareBegin \/ PrepareStep \/ PrepareFinish

Spec == Init /\ [][Next]_vars

\* The same run on every list, in every order
AnyOrderLists(longest) == UNION {[1..n -> PlainSprites] : n \in 0..longest}

InitAnyOrder == extracted_sprites \in AnyOrderLists(MaxSprites) /\ InitRender

SpecAnyOrder == InitAnyOrder /\ [][Next]_vars

\* The same run on one or two sprites, each flipped or not, of the whole texture
\* or of a sub-rectangle
GeometrySprites ==
    {ExtractedSprite(1, h, c, rect, <<>>, flip_x, flip_y, <<0, 0>>) :
        h \in Handles, c \in Colors,
        rect \in {<<>>} \cup {<<AtlasRects[i]>> : i \in DOMAIN AtlasRects},
        flip_x \in BOOLEAN, flip_y \in BOOLEAN}

\* The lists of one and of two elements of S
OneOrTwo(S) == [{1} -> S] \cup [{1, 2} -> S]

InitGeometry == extracted_sprites \in OneOrTwo(GeometrySprites) /\ InitRender

SpecGeometry == InitGeometry /\ [][Next]_vars

\* The same run on one or two sprites, each with or without a sub-rectangle and
\* with or without a custom size
SizeSprites ==
    {ExtractedSprite(z, h, c, rect, custom_size, FALSE, FALSE, <<0, 0>>) :
        z \in ZValues, h \in Handles, c \in Colors,
        rect \in {<<>>, <<AtlasRects[1]>>},
        custom_size \in {<<>>, << <<3, 5>> >>}}

InitSize == extracted_sprites \in OneOrTwo(SizeSprites) /\ InitRender

SpecSize == InitSize /\ [][Next]_vars

\* The same run on lists up to one sprite longer
InitLong == extracted_sprites \in LongExtractedLists /\ InitRender

SpecLong == InitLong /\ [][Next]_vars

(***************************************************************************)
(* Specification of the frame pipeline: extraction, preparation, queueing,  *)
(* once per frame in that order                                             *)
(***************************************************************************)
\* What the rest of the renderer does between two frames: the render world's
\* entities (the batches, the views and their phases) are dropped and the
\* prepare_locals are out of scope
BeginFrame ==
    /\ pc = "queued"
    /\ frame < MaxFrames
    /\ frame' = frame + 1
    /\ sprite_batches' = <<>>
    /\ phases' = <<>>
    /\ current_batch_handle' = NilHandle
    /\ current_image_size' = Vec2ZERO
    /\ current_batch_colored' = FALSE
    /\ z_order' = 0
    /\ white_start' = 0
    /\ white_end' = 0
    /\ colored_start' = 0
    /\ colored_end' = 0
    /\ log' = <<>>
    /\ bind_groups_before' = <<>>
    /\ bind_groups_made' = <<>>
    /\ prepare_input' = <<>>
    /\ world' = <<>>
    /\ extract_entry' = <<>>
    /\ pc' = "extract_events"
    /\ UNCHANGED <<extracted_sprites, gpu_images, sprite_meta, events,
                   image_bind_groups, view_uniforms, msaa, pipelines>>
    /\ UNCHANGED picking

\* What the rest of the renderer prepares before prepare_sprites and
\* queue_sprites run: the GPU-texture lookup, the views with their empty phases
\* and the view uniforms of the frame
PrepareAssets ==
    /\ pc = "extracted"
    /\ gpu_images' \in GpuImageLookups
    /\ \E n \in 0..MaxViews : phases' = [v \in 1..n |-> <<>>]
    /\ view_uniforms' \in {<<>>, <<"view_binding">>}
    /\ pc' = "prepare"
    /\ UNCHANGED <<extracted_sprites, sprite_meta, sprite_batches, prepare_locals,
                   history, events, image_bind_groups, msaa, pipelines, frame>>
    /\ UNCHANGED picking

\* The asset events of one frame
ImageEventLists ==
    UNION {[1..n -> {AssetEvent(k, h) : k \in {"Created", "Modified", "Removed"},
                                        h \in Handles}] : n \in 0..MaxEvents}

\* Sprite components with no custom size, no flip, anchored at the centre
SpriteComponent(color) ==
    [color |-> color, custom_size |-> <<>>, flip_x |-> FALSE, flip_y |-> FALSE,
     anchor |-> <<0, 0>>]

\* TextureAtlasSprite components: a Sprite's fields and the index into the atlas
AtlasSpriteComponent(color, index) ==
    [color |-> color, index |-> index, custom_size |-> <<>>, flip_x |-> FALSE,
     flip_y |-> FALSE, anchor |-> <<0, 0>>]

PlainEntities ==
    {[is_visible |-> v, z |-> z, handle |-> h, sprite |-> SpriteComponent(c)] :
        v \in BOOLEAN, z \in ZValues, h \in Handles, c \in Colors}

\* TextureAtlasSprite.index: the positions of AtlasRects and the first past them
AtlasIndices == 0..Len(AtlasRects)

\* Atlas sprites of the one atlas handle 1
AtlasEntities ==
    {[is_visible |-> v, z |-> z, handle |-> 1, sprite |-> AtlasSpriteComponent(c, i)] :
        v \in BOOLEAN, z \in ZValues, c \in Colors, i \in AtlasIndices}

\* Assets<TextureAtlas>: empty, or atlas 1 over texture h
AtlasLookups ==
    {<<>>} \cup {[a \in {1} |-> [texture |-> h, textures |-> AtlasRects]] : h \in Handles}

\* The main worlds of a frame: at most MaxEntities sprite entities
FrameWorlds ==
    UNION {UNION {{[sprite_query |-> sq, atlas_query |-> aq, texture_atlases |-> ta] :
                        sq \in [1..n -> PlainEntities],
                        aq \in [1..m -> AtlasEntities],
                        ta \in AtlasLookups} :
                  m \in 0..(MaxEntities - n)} :
           n \in 0..MaxEntities}

InitFrames ==
    /\ extracted_sprites = <<>>
    /\ gpu_images = <<>>
    /\ vertices = <<>>
    /\ colored_vertices = <<>>
    /\ view_bind_group = <<>>
    /\ sprite_batches = <<>>
    /\ pc = "queued"
    /\ current_batch_handle = NilHandle
    /\ current_image_size = Vec2ZERO
    /\ current_batch_colored = FALSE
    /\ z_order = 0
    /\ white_start = 0
    /\ white_end = 0
    /\ colored_start = 0
    /\ colored_end = 0
    /\ log = <<>>
    /\ events = <<>>
    /\ image_bind_groups = <<>>
    /\ view_uniforms = <<>>
    /\ phases = <<>>
    /\ msaa = 4
    /\ pipelines = {}
    /\ frame = 0
    /\ bind_groups_before = <<>>
    /\ bind_groups_made = <<>>
    /\ prepare_input = <<>>
    /\ world = <<>>
    /\ extract_entry = <<>>
    /\ NoPicking

NextFrames ==
    \/ BeginFrame
    \/ ExtractSpriteEvents(ImageEventLists)
    \/ ExtractSprites(FrameWorlds)
    \/ PrepareAssets
    \/ PrepareBegin
    \/ PrepareStep
    \/ PrepareFinish
    \/ QueueSprites

SpecFrames == InitFrames /\ [][NextFrames]_vars

(***************************************************************************)
(* Specification of extraction followed by preparation, and of any sequence *)
(* of calls of the two                                                      *)
(***************************************************************************)
\* Main worlds with at most MaxEntities plain sprites, at most MaxEntities
\* atlas sprites and at most MaxEntities + 1 sprites in all, all at one depth
QueryWorlds ==
    UNION {UNION {{[sprite_query |-> sq, atlas_query |-> aq, texture_atlases |-> ta] :
                        sq \in [1..n -> {e \in PlainEntities : e.z = 1}],
                        aq \in [1..m -> {e \in AtlasEntities : e.z = 1}],
                        ta \in AtlasLookups} :
                  m \in {k \in 0..MaxEntities : n + k <= MaxEntities + 1}} :
           n \in 0..MaxEntities}

\* The render schedule running prepare_sprites after extract_sprites
CallPrepareSprites ==
    /\ pc = "extracted"
    /\ pc' = "prepare"
    /\ UNCHANGED <<extracted_sprites, gpu_images, sprite_meta, sprite_batches,
                   prepare_locals, history, queue_state>>
    /\ UNCHANGED picking

\* A caller running extract_sprites again, after the latest extract_sprites or
\* after prepare_sprites; the batch entities of the earlier call are gone
CallExtractSprites ==
    /\ pc \in {"extracted", "prepared"}
    /\ frame < MaxFrames
    /\ frame' = frame + 1
    /\ sprite_batches' = <<>>
    /\ log' = <<>>
    /\ prepare_input' = <<>>
    /\ world' = <<>>
    /\ extract_entry' = <<>>
    /\ pc' = "extract_sprites"
    /\ UNCHANGED <<extracted_sprites, gpu_images, sprite_meta, prepare_locals,
                   bind_groups_before, bind_groups_made, events, image_bind_groups,
                   view_uniforms, phases, msaa, pipelines>>
    /\ UNCHANGED picking

InitExtract ==
    /\ extracted_sprites = <<>>
    /\ gpu_images \in GpuImageLookups
    /\ vertices = <<>>
    /\ colored_vertices = <<>>
    /\ view_bind_group = <<>>
    /\ sprite_batches = <<>>
    /\ pc = "extract_sprites"
    /\ current_batch_handle = NilHandle
    /\ current_image_size = Vec2ZERO
    /\ current_batch_colored = FALSE
    /\ z_order = 0
    /\ white_start = 0
    /\ white_end = 0
    /\ colored_start = 0
    /\ colored_end = 0
    /\ log = <<>>
    /\ events = <<>>
    /\ image_bind_groups = <<>>
    /\ view_uniforms = <<>>
    /\ phases = <<>>
    /\ msaa = 4
    /\ pipelines = {}
    /\ frame = 1
    /\ bind_groups_before = <<>>
    /\ bind_groups_made = <<>>
    /\ prepare_input = <<>>
    /\ world = <<>>
    /\ extract_entry = <<>>
    /\ NoPicking

NextExtract ==
    \/ ExtractSprites(QueryWorlds)
    \/ CallPrepareSprites
    \/ PrepareBegin
    \/ PrepareStep
    \/ PrepareFinish

SpecExtract == InitExtract /\ [][NextExtract]_vars

NextCalls == NextExtract \/ CallExtractSprites

SpecCalls == InitExtract /\ [][NextCalls]_vars

(***************************************************************************)
(* Specification of one pass of queue_sprites in any frame: on any cache    *)
(* the earlier frames left, any events, and any batches of resident         *)
(* textures                                                                 *)
(***************************************************************************)
\* The caches earlier frames can leave: bind groups made in frame 0 for any
\* set of textures
LeftCaches ==
    {[h \in S |-> MaterialBindGroup(GpuImage(h), 0)] : S \in SUBSET Handles}

\* The batch lists prepare_sprites can leave for a lookup: at most MaxEntities
\* batches of resident textures, batch i over the vertices of one sprite
BatchLists(images) ==
    UNION {[1..n -> {SpriteBatch(0, Len(QUAD_INDICES), h, c, 1) :
                        h \in DOMAIN images, c \in BOOLEAN}] :
           n \in 0..MaxEntities}

InitQueue ==
    /\ extracted_sprites = <<>>
    /\ gpu_images \in GpuImageLookups
    /\ vertices = <<>>
    /\ colored_vertices = <<>>
    /\ \E earlier \in BOOLEAN :
          /\ view_bind_group =
                IF earlier THEN <<ViewBindGroup("view_binding", 0)>> ELSE <<>>
          /\ pipelines =
                IF earlier
                THEN Specialize(Specialize({}, FromMsaaSamples(4)[1]),
                                WithColored(FromMsaaSamples(4)[1]))
                ELSE {}
    /\ sprite_batches \in BatchLists(gpu_images)
    /\ pc = "prepared"
    /\ current_batch_handle = NilHandle
    /\ current_image_size = Vec2ZERO
    /\ current_batch_colored = FALSE
    /\ z_order = 0
    /\ white_start = 0
    /\ white_end = 0
    /\ colored_start = 0
    /\ colored_end = 0
    /\ log = <<>>
    /\ events \in ImageEventLists
    /\ image_bind_groups \in LeftCaches
    /\ view_uniforms \in {<<>>, <<"view_binding">>}
    /\ phases \in {[v \in 1..n |-> <<>>] : n \in 0..MaxViews}
    /\ msaa = 4
    /\ frame = 1
    /\ bind_groups_before = <<>>
    /\ bind_groups_made = <<>>
    /\ prepare_input = <<>>
    /\ world = <<>>
    /\ extract_entry = <<>>
    /\ NoPicking

NextQueue == QueueSprites

SpecQueue == InitQueue /\ [][NextQueue]_vars

(***************************************************************************)
(* Specification of the render half of one frame: prepare_sprites on any    *)
(* extracted list, then queue_sprites on the batches it spawned             *)
(***************************************************************************)
InitPrepareQueue ==
    /\ extracted_sprites \in ExtractedLists
    /\ gpu_images \in GpuImageLookups
    /\ vertices = <<>>
    /\ colored_vertices = <<>>
    /\ view_bind_group = <<>>
    /\ sprite_batches = <<>>
    /\ pc = "prepare"
    /\ current_batch_handle = NilHandle
    /\ current_image_size = Vec2ZERO
    /\ current_batch_colored = FALSE
    /\ z_order = 0
    /\ white_start = 0
    /\ white_end = 0
    /\ colored_start = 0
    /\ colored_end = 0
    /\ log = <<>>
    /\ events \in ImageEventLists
    /\ image_bind_groups \in LeftCaches
    /\ view_uniforms \in {<<>>, <<"view_binding">>}
    /\ phases \in {[v \in 1..n |-> <<>>] : n \in 0..MaxViews}
    /\ msaa = 4
    /\ pipelines = {}
    /\ frame = 1
    /\ bind_groups_before = <<>>
    /\ bind_groups_made = <<>>
    /\ prepare_input = <<>>
    /\ world = <<>>
    /\ extract_entry = <<>>
    /\ NoPicking

NextPrepareQueue == PrepareBegin \/ PrepareStep \/ PrepareFinish \/ QueueSprites

SpecPrepareQueue == InitPrepareQueue /\ [][NextPrepareQueue]_vars

(***************************************************************************)
(* Specification of one pass of queue_sprites for every sample count the    *)
(* key can hold                                                             *)
(***************************************************************************)
\* Msaa.samples: 1 to 64
MsaaSampleCounts == 1..(MSAA_MASK_BITS + 1)

InitKey ==
    /\ extracted_sprites = <<>>
    /\ gpu_images \in GpuImageLookups
    /\ vertices = <<>>
    /\ colored_vertices = <<>>
    /\ view_bind_group = <<>>
    /\ sprite_batches \in BatchLists(gpu_images)
    /\ pc = "prepared"
    /\ current_batch_handle = NilHandle
    /\ current_image_size = Vec2ZERO
    /\ current_batch_colored = FALSE
    /\ z_order = 0
    /\ white_start = 0
    /\ white_end = 0
    /\ colored_start = 0
    /\ colored_end = 0
    /\ log = <<>>
    /\ events = <<>>
    /\ image_bind_groups = <<>>
    /\ view_uniforms = <<"view_binding">>
    /\ phases \in {[v \in 1..n |-> <<>>] : n \in 0..MaxViews}
    /\ msaa \in MsaaSampleCounts
    /\ pipelines = {}
    /\ frame = 1
    /\ bind_groups_before = <<>>
    /\ bind_groups_made = <<>>
    /\ prepare_input = <<>>
    /\ world = <<>>
    /\ extract_entry = <<>>
    /\ NoPicking

SpecKey == InitKey /\ [][NextQueue]_vars

(***************************************************************************)
(* ui_picking (crates/bevy_ui/src/picking_backend.rs)                       *)
(***************************************************************************)
\* Entities and PointerIds are natural numbers.  A Rect is [min, max] as in
\* AtlasRects; a node's logical_rect is given with the node.  A hash map is a
\* function on its keys, the empty one <<>>.

Max(a, b) == IF a >= b THEN a ELSE b

Min(a, b) == IF a <= b THEN a ELSE b

\* .rev() of a list
Reverse(s) == [i \in 1..Len(s) |-> s[Len(s) + 1 - i]]

\* node_query.get_mut(entity): <<>> is Err
NodeQueryGet(node_query, entity) ==
    IF entity \in DOMAIN node_query THEN <<node_query[entity]>> ELSE <<>>

\* node.target_camera.map(TargetCamera::entity).or(default_ui_camera.get())
CameraOf(node, default_ui_camera) ==
    IF node.target_camera # <<>> THEN node.target_camera ELSE default_ui_camera

\* pointer_pos / **ui_scale after the viewport offset; positions are multiples
\* of the scale
ScaledPointerPos(position, camera_data, ui_scale) ==
    LET pointer_pos == IF camera_data.viewport # <<>>
                       THEN <<position[1] - camera_data.viewport[1].min[1],
                              position[2] - camera_data.viewport[1].min[2]>>
                       ELSE position
    IN  <<pointer_pos[1] \div ui_scale, pointer_pos[2] \div ui_scale>>

\* The pointers that have a location, on the render target of a camera
PointersOn(ui, camera) ==
    {id \in DOMAIN ui.pointers :
        /\ ui.pointers[id] # <<>>
        /\ ui.cameras[camera].target # <<>>
        /\ ui.cameras[camera].target[1] = ui.pointers[id][1].target}

\* pointer_pos_by_camera once the first loop is through
PointerPosByCamera(ui) ==
    [camera \in {c \in DOMAIN ui.cameras : PointersOn(ui, c) # {}} |->
        [id \in PointersOn(ui, camera) |->
            ScaledPointerPos(ui.pointers[id][1].position, ui.cameras[camera],
                             ui.ui_scale)]]

\* (p - rect.min) / rect.size(), each coordinate the fraction <<num, den>>
RelativeTo(p, rect) ==
    << <<p[1] - rect.min[1], rect.max[1] - rect.min[1]>>,
       <<p[2] - rect.min[2], rect.max[2] - rect.min[2]>> >>

\* a <= b for fractions of positive denominators
FractionLe(a, b) == a[1] * b[2] <= b[1] * a[2]

\* Rect::normalize: the rect in coordinates relative to other
RectNormalize(rect, other) ==
    [min |-> RelativeTo(rect.min, other), max |-> RelativeTo(rect.max, other)]

\* Rect::contains on fractions: the borders are inside
RectContains(rect, point) ==
    \A d \in 1..2 : FractionLe(rect.min[d], point[d]) /\ FractionLe(point[d], rect.max[d])

\* Rect::intersect: an empty intersection collapses onto its max
RectIntersect(a, b) ==
    LET lo == <<Max(a.min[1], b.min[1]), Max(a.min[2], b.min[2])>>
        hi == <<Min(a.max[1], b.max[1]), Min(a.max[2], b.max[2])>>
    IN  [min |-> <<Min(lo[1], hi[1]), Min(lo[2], hi[2])>>, max |-> hi]

\* f32::signum: 1 for +0.0
Signum(x) == IF x >= 0 THEN 1 ELSE -1

Abs(x) == IF x >= 0 THEN x ELSE -x

\* pick_rounded_rect, with point and the radii in units of 1/2 and size in
\* units of 1: l + m - r < 0, as r - m > 0 and l * l < (r - m) * (r - m)
PickRoundedRect(point, size, border_radius) ==
    LET sx == Signum(point[1])
        sy == Signum(point[2])
        r == (border_radius.top_left * (1 - sx) * (1 - sy)
              + border_radius.top_right * (1 + sx) * (1 - sy)
              + border_radius.bottom_right * (1 + sx) * (1 + sy)
              + border_radius.bottom_left * (1 - sx) * (1 + sy)) \div 4
        q == <<Abs(point[1]) - size[1] + r, Abs(point[2]) - size[2] + r>>
        l_squared == Max(q[1], 0) * Max(q[1], 0) + Max(q[2], 0) * Max(q[2], 0)
        m == Min(Max(q[1], q[2]), 0)
    IN  r - m > 0 /\ l_squared < (r - m) * (r - m)

\* The test of lines 163-171 for a node and a cursor position
IsHit(node, cursor_position) ==
    LET node_rect == node.rect
        visible_rect == IF node.calculated_clip # <<>>
                        THEN RectIntersect(node_rect, node.calculated_clip[1])
                        ELSE node_rect
        relative_cursor_position == RelativeTo(cursor_position, node_rect)
    IN  /\ RectContains(RectNormalize(visible_rect, node_rect),
                        relative_cursor_position)
        /\ PickRoundedRect(
              <<2 * cursor_position[1] - node_rect.min[1] - node_rect.max[1],
                2 * cursor_position[2] - node_rect.min[2] - node_rect.max[2]>>,
              RectSize(node_rect), node.border_radius)

\* hit_nodes after the body of the loop over the stack ran for node_entity
HitNodesAfter(hits, node_entity, node_query, default_ui_camera, positions) ==
    LET got == NodeQueryGet(node_query, node_entity)
    IN  IF got = <<>> THEN hits
        ELSE IF got[1].view_visibility # <<TRUE>> THEN hits
        ELSE IF CameraOf(got[1], default_ui_camera) = <<>> THEN hits
        ELSE IF RectSize(got[1].rect) = Vec2ZERO THEN hits
        ELSE LET node == got[1]
                 camera_entity == CameraOf(node, default_ui_camera)[1]
                 pointers_on_this_cam ==
                     IF camera_entity \in DOMAIN positions
                     THEN positions[camera_entity] ELSE <<>>
                 keys == {<<camera_entity, id>> :
                             id \in {i \in DOMAIN pointers_on_this_cam :
                                       IsHit(node, pointers_on_this_cam[i])}}
             IN  [key \in (DOMAIN hits) \cup keys |->
                     IF key \in keys
                     THEN Append(IF key \in DOMAIN hits THEN hits[key] ELSE <<>>,
                                 node_entity)
                     ELSE hits[key]]

\* A node that lets lower nodes through unless it is marked as blocking
BlocksLowerIfMarked(node) ==
    IF node.pickable # <<>> THEN node.pickable[1].should_block_lower ELSE FALSE

\* Whether the second loop breaks at a node: should_block_lower of its
\* Pickable, and a node without Pickable blocks
BlocksLower(node) ==
    IF node.pickable # <<>> THEN node.pickable[1].should_block_lower ELSE TRUE

\* picks when `while let Some(node) = iter.fetch_next()` ended, from position i
\* of hovered_nodes on; depth counts steps of 0.00001
RECURSIVE PicksFrom(_, _, _, _, _, _)
PicksFrom(picks, depth, hovered_nodes, i, node_query, default_ui_camera) ==
    IF i > Len(hovered_nodes) THEN picks
    ELSE LET got == NodeQueryGet(node_query, hovered_nodes[i])
         IN  IF got = <<>> \/ CameraOf(got[1], default_ui_camera) = <<>>
             THEN PicksFrom(picks, depth, hovered_nodes, i + 1, node_query,
                            default_ui_camera)
             ELSE LET pushed ==
                          Append(picks,
                                 [entity |-> hovered_nodes[i],
                                  camera |-> CameraOf(got[1], default_ui_camera)[1],
                                  depth |-> depth])
                  IN  IF BlocksLower(got[1]) THEN pushed
                      ELSE PicksFrom(pushed, depth + 1, hovered_nodes, i + 1,
                                     node_query, default_ui_camera)

\* PointerHits::new(*pointer, picks, order) for an entry of hit_nodes; order is
\* in units of 1/2; key is history, the entry the event was made from
PointerHits(key, hovered_nodes, ui) ==
    [pointer |-> key[2],
     picks |-> PicksFrom(<<>>, 0, hovered_nodes, 1, ui.node_query,
                         ui.default_ui_camera),
     order |-> 2 * (IF key[1] \in DOMAIN ui.cameras THEN ui.cameras[key[1]].order
                    ELSE 0) + 1,
     key |-> key]

\* The entries of hit_nodes the last loop is through with
Sent == {output[i].key : i \in DOMAIN output}

\* The first loop: lines 74-108
CollectPointerPositions ==
    /\ pc = "ui_picking"
    /\ pointer_pos_by_camera' = PointerPosByCamera(ui_world)
    /\ hit_nodes' = <<>>
    /\ uinodes_left' = Reverse(ui_world.ui_stack)
    /\ pc' = "ui_hit_test"
    /\ UNCHANGED <<ui_world, output, extracted_sprites, gpu_images, sprite_meta,
                   sprite_batches, prepare_locals, history, queue_state>>

\* One iteration of `for node_entity in ui_stack.uinodes.iter().rev()`
HitTestNode ==
    /\ pc = "ui_hit_test"
    /\ uinodes_left # <<>>
    /\ hit_nodes' = HitNodesAfter(hit_nodes, Head(uinodes_left), ui_world.node_query,
                                  ui_world.default_ui_camera, pointer_pos_by_camera)
    /\ uinodes_left' = Tail(uinodes_left)
    /\ UNCHANGED <<ui_world, pointer_pos_by_camera, output, pc, extracted_sprites,
                   gpu_images, sprite_meta, sprite_batches, prepare_locals, history,
                   queue_state>>

\* One iteration of `for ((camera, pointer), hovered_nodes) in hit_nodes.iter()`;
\* a hash map iterates in any order
SendPointerHits ==
    /\ pc = "ui_hit_test"
    /\ uinodes_left = <<>>
    /\ \E key \in (DOMAIN hit_nodes) \ Sent :
          output' = Append(output, PointerHits(key, hit_nodes[key], ui_world))
    /\ UNCHANGED <<ui_world, pointer_pos_by_camera, hit_nodes, uinodes_left, pc,
                   extracted_sprites, gpu_images, sprite_meta, sprite_batches,
                   prepare_locals, history, queue_state>>

\* ResolvedBorderRadius of a node with square corners
SquareCorners ==
    [top_left |-> 0, top_right |-> 0, bottom_right |-> 0, bottom_left |-> 0]

\* An item of NodeQuery
Node(view_visibility, target_camera, pickable, rect, calculated_clip) ==
    [view_visibility |-> view_visibility, target_camera |-> target_camera,
     pickable |-> pickable, rect |-> rect, calculated_clip |-> calculated_clip,
     border_radius |-> SquareCorners]

Pickable(should_block_lower) == <<[should_block_lower |-> should_block_lower]>>

Rect(x0, y0, x1, y1) == [min |-> <<x0, y0>>, max |-> <<x1, y1>>]

\* The nodes a stack is made of: over the default camera and not blocking,
\* blocking, without Pickable; beside the first; on the second camera; not
\* view-visible; without ViewVisibility; of size zero; clipped to its left half
NodeKinds ==
    {Node(<<TRUE>>, <<>>, Pickable(FALSE), Rect(0, 0, 4, 4), <<>>),
     Node(<<TRUE>>, <<>>, Pickable(TRUE), Rect(0, 0, 4, 4), <<>>),
     Node(<<TRUE>>, <<>>, <<>>, Rect(0, 0, 4, 4), <<>>),
     Node(<<TRUE>>, <<>>, Pickable(FALSE), Rect(2, 0, 6, 4), <<>>),
     Node(<<TRUE>>, <<2>>, Pickable(FALSE), Rect(0, 0, 4, 4), <<>>),
     Node(<<FALSE>>, <<>>, <<>>, Rect(0, 0, 4, 4), <<>>),
     Node(<<>>, <<>>, Pickable(TRUE), Rect(0, 0, 4, 4), <<>>),
     Node(<<TRUE>>, <<>>, <<>>, Rect(2, 2, 2, 2), <<>>),
     Node(<<TRUE>>, <<>>, Pickable(FALSE), Rect(0, 0, 4, 4), <<Rect(0, 0, 2, 4)>>)}

\* An entity of the stack that node_query does not match
NotANode == <<>>

\* The cameras: two on the window, the second with a viewport, one on an image
UiCameras ==
    <<[target |-> <<"window">>, viewport |-> <<>>, order |-> 0],
      [target |-> <<"window">>, viewport |-> <<Rect(2, 0, 8, 4)>>, order |-> 1],
      [target |-> <<"image">>, viewport |-> <<>>, order |-> 2]>>

\* PointerLocation::location() of the two pointers: the first on the window,
\* the second on the window or without a location
PointerLocations ==
    {<<<<[target |-> "window", position |-> <<2, 2>>]>>, second>> :
        second \in {<<>>, <<[target |-> "window", position |-> <<6, 2>>]>>}}

\* What ui_picking reads, for a stack 1..Len(kinds) of entities of the kinds
UiWorld(kinds, pointers, default_ui_camera, ui_scale) ==
    [pointers |-> pointers,
     cameras |-> UiCameras,
     default_ui_camera |-> default_ui_camera,
     ui_scale |-> ui_scale,
     ui_stack |-> [e \in 1..Len(kinds) |-> e],
     node_query |-> [e \in {k \in 1..Len(kinds) : kinds[k] # NotANode} |-> kinds[e]]]

InitPicking ==
    /\ \E n \in 0..MaxNodes :
          \E kinds \in [1..n -> NodeKinds \cup {NotANode}] :
             \E pointers \in PointerLocations :
                \E default_ui_camera \in {<<>>, <<1>>} :
                   \E ui_scale \in 1..2 :
                      ui_world = UiWorld(kinds, pointers, default_ui_camera, ui_scale)
    /\ pointer_pos_by_camera = <<>>
    /\ hit_nodes = <<>>
    /\ uinodes_left = <<>>
    /\ output = <<>>
    /\ pc = "ui_picking"
    /\ extracted_sprites = <<>>
    /\ gpu_images = <<>>
    /\ vertices = <<>>
    /\ colored_vertices = <<>>
    /\ view_bind_group = <<>>
    /\ sprite_batches = <<>>
    /\ current_batch_handle = NilHandle
    /\ current_image_size = Vec2ZERO
    /\ current_batch_colored = FALSE
    /\ z_order = 0
    /\ white_start = 0
    /\ white_end = 0
    /\ colored_start = 0
    /\ colored_end = 0
    /\ log = <<>>
    /\ events = <<>>
    /\ image_bind_groups = <<>>
    /\ view_uniforms = <<>>
    /\ phases = <<>>
    /\ msaa = 4
    /\ pipelines = {}
    /\ frame = 1
    /\ bind_groups_before = <<>>
    /\ bind_groups_made = <<>>
    /\ prepare_input = <<>>
    /\ world = <<>>
    /\ extract_entry = <<>>

NextPicking == CollectPointerPositions \/ HitTestNode \/ SendPointerHits

SpecPicking == InitPicking /\ [][NextPicking]_vars

(***************************************************************************)
(* Reading the outcome of prepare_sprites                                   *)
(***************************************************************************)
\* The positions in sorted order of the sprites whose vertices were written
Written == {k \in DOMAIN log : log[k].written}

\* The positions of the sprites whose texture the GPU-texture lookup holds
Resident == {k \in DOMAIN log : log[k].sprite.image_handle_id \in DOMAIN gpu_images}

\* The vertex buffer a colored flag selects
BufferOf(colored) == IF colored THEN colored_vertices ELSE vertices

\* The emitted batches that target a buffer
BatchesOf(colored) ==
    {i \in DOMAIN sprite_batches : sprite_batches[i].colored = colored}

\* The emitted batches of a buffer whose range holds vertex index v
BatchesCovering(colored, v) ==
    {i \in BatchesOf(colored) :
        sprite_batches[i].range[1] <= v /\ v < sprite_batches[i].range[2]}

\* The emitted batches whose range holds the 6 vertices of written sprite k
BatchesHolding(k) ==
    {i \in BatchesOf(log[k].colored) :
        /\ sprite_batches[i].range[1] <= log[k].first
        /\ log[k].first + Len(QUAD_INDICES) <= sprite_batches[i].range[2]}

\* Sprites j and k share texture identity and colour mode
SameBatchKey(j, k) ==
    /\ log[j].sprite.image_handle_id = log[k].sprite.image_handle_id
    /\ log[j].colored = log[k].colored

\* The written sprites that start a maximal run of texture identity and colour mode
RunStarts ==
    {k \in Written :
        \/ \A j \in Written : j >= k
        \/ LET prev == CHOOSE j \in Written :
                            j < k /\ \A i \in Written : i < k => i <= j
           IN  ~SameBatchKey(prev, k)}

(***************************************************************************)
(* Claims                                                                   *)
(***************************************************************************)
\* C1: when prepare_sprites has returned, the ranges of the emitted batches of
\* each vertex buffer partition it: every vertex index below the buffer's length
\* lies in exactly one batch of that buffer, and no range leaves the buffer.
C1_BatchesPartitionBuffers ==
    pc = "prepared" =>
        \A colored \in BOOLEAN :
            /\ \A v \in 0..(Len(BufferOf(colored)) - 1) :
                  Cardinality(BatchesCovering(colored, v)) = 1
            /\ \A i \in BatchesOf(colored) :
                  /\ 0 <= sprite_batches[i].range[1]
                  /\ sprite_batches[i].range[2] <= Len(BufferOf(colored))

\* C2: prepare_sprites emits exactly one batch per maximal run of written sprites
\* sharing texture identity and colour mode; two sprites of one resident texture,
\* one white and one not, give two batches of length 6, one in each buffer.
C2_OneBatchPerRun ==
    pc = "prepared" =>
        /\ Len(sprite_batches) = Cardinality(RunStarts)
        /\ (/\ Len(log) = 2
            /\ Written = {1, 2}
            /\ log[1].sprite.image_handle_id = log[2].sprite.image_handle_id
            /\ log[1].colored # log[2].colored)
           => /\ Len(sprite_batches) = 2
              /\ sprite_batches[1].colored # sprite_batches[2].colored
              /\ \A i \in 1..2 :
                    sprite_batches[i].range[2] - sprite_batches[i].range[1] = 6

\* C3: every emitted batch carries the texture identity of every sprite whose 6
\* vertices lie inside its range, in the loop and after it.
C3_BatchTaggedWithItsTexture ==
    \A k \in Written : \A i \in BatchesHolding(k) :
        sprite_batches[i].image_handle_id = log[k].sprite.image_handle_id

\* C4: the z_order of every emitted batch is the z of the last sprite written
\* into that batch's own range.
C4_BatchZOrderOfItsLastSprite ==
    \A i \in DOMAIN sprite_batches : \A k \in Written :
        (/\ log[k].colored = sprite_batches[i].colored
         /\ log[k].first + Len(QUAD_INDICES) = sprite_batches[i].range[2])
        => sprite_batches[i].z_order = log[k].sprite.z

\* C5: for written sprites of distinct z, the batch holding the smaller-z sprite
\* is emitted no later than, and has a z_order no greater than, the batch holding
\* the larger-z sprite, across both buffers.
C5_BatchesPreserveDepthOrder ==
    pc = "prepared" =>
        \A j \in Written : \A k \in Written :
            log[j].sprite.z < log[k].sprite.z =>
                \A a \in BatchesHolding(j) : \A b \in BatchesHolding(k) :
                    /\ a <= b
                    /\ sprite_batches[a].z_order <= sprite_batches[b].z_order

\* C6: the batch being left at a boundary is emitted before the next sprite is
\* written, so during the loop only the open batch's buffer has vertices no
\* emitted batch holds, and none is left in either buffer on return.
C6_BatchClosedAtEveryBoundary ==
    /\ pc = "loop" =>
          (IF current_batch_colored THEN white_start = white_end
           ELSE colored_start = colored_end)
    /\ pc = "prepared" =>
          \A colored \in BOOLEAN : \A v \in 0..(Len(BufferOf(colored)) - 1) :
              BatchesCovering(colored, v) # {}

\* C7: two written sprites consecutive in sorted order end up in one emitted
\* batch range if they share texture identity and colour mode, and in no common
\* batch range if they differ in either.
C7_BatchMerge ==
    pc = "prepared" =>
        \A k \in Written :
            (k + 1) \in Written =>
                IF SameBatchKey(k, k + 1)
                THEN BatchesHolding(k) \cap BatchesHolding(k + 1) # {}
                ELSE BatchesHolding(k) \cap BatchesHolding(k + 1) = {}

\* C8: a sprite whose texture identity is absent from the GPU-texture lookup adds
\* no vertex to either buffer, no emitted batch carries an absent texture
\* identity, and the stage does not fail.
C8_MissingTextureDropped ==
    pc \in {"loop", "prepared"} =>
        /\ \A k \in DOMAIN log : k \notin Resident => ~log[k].written
        /\ Len(vertices) + Len(colored_vertices) =
              Len(QUAD_INDICES) * Cardinality(Resident)
        /\ \A i \in DOMAIN sprite_batches :
              sprite_batches[i].image_handle_id \in DOMAIN gpu_images
        /\ pc # "panic"

\* C8 witness: a run that met a sprite with an absent texture and wrote another
C8_Witness ==
    /\ pc = "prepared"
    /\ \E k \in DOMAIN log : k \notin Resident
    /\ Written # {}
    /\ sprite_batches # <<>>

\* C9: every emitted batch has a non-empty range, and a frame in which no sprite
\* is written emits no batch.
C9_EmittedRangesNonEmpty ==
    /\ \A i \in DOMAIN sprite_batches :
          sprite_batches[i].range[1] < sprite_batches[i].range[2]
    /\ (pc = "prepared" /\ Written = {}) => sprite_batches = <<>>

\* C9 witness: a run that emitted a batch in the loop and one after it
C9_Witness ==
    /\ pc = "prepared"
    /\ Len(sprite_batches) >= 2
    /\ sprite_batches[Len(sprite_batches)].range[2] =
          (IF current_batch_colored THEN colored_end ELSE white_end)

\* C10: once queue_sprites has processed the frame's events, the cache holds no
\* entry made before a Modified or Removed event of the frame for its texture:
\* an entry for such a texture is one made in this pass from the current
\* GpuImage, whether or not view uniforms were available, and a pass with a
\* batch of that texture makes it.
C10_NoStaleBindGroupAfterEvents ==
    pc = "queued" =>
        \A e \in DOMAIN events :
            events[e].kind \in {"Modified", "Removed"} =>
                LET h == events[e].handle
                IN  /\ h \in DOMAIN image_bind_groups =>
                          /\ image_bind_groups[h].created = frame
                          /\ h \in DOMAIN gpu_images
                          /\ image_bind_groups[h].texture_view =
                                gpu_images[h].texture_view
                          /\ view_uniforms # <<>>
                    /\ (/\ view_uniforms # <<>>
                        /\ phases # <<>>
                        /\ \E i \in DOMAIN sprite_batches :
                              sprite_batches[i].image_handle_id = h)
                       => h \in DOMAIN image_bind_groups

\* C10 witness: a texture cached in an earlier frame gets a Modified or Removed
\* event and a new bind group in the same pass
C10_Witness ==
    /\ pc = "queued"
    /\ \E e \in DOMAIN events :
          /\ events[e].kind \in {"Modified", "Removed"}
          /\ events[e].handle \in DOMAIN bind_groups_before
          /\ events[e].handle \in DOMAIN image_bind_groups
          /\ bind_groups_before[events[e].handle].created < frame

\* C11: queue_sprites never fails an unwrap on the batches prepare_sprites
\* spawned in the frame, and for every item it adds to a phase the batch's
\* texture identity is in the GPU-texture lookup and in the ImageBindGroups
\* cache, so SetSpriteTextureBindGroup finds the bind group when the item is
\* drawn; a bind group made in the frame is made from the lookup's GpuImage.
C11_EnqueuedItemsHaveBindGroups ==
    /\ pc # "panic"
    /\ pc = "queued" =>
          \A v \in DOMAIN phases : \A i \in DOMAIN phases[v] :
              LET item == phases[v][i]
                  h == sprite_batches[item.entity].image_handle_id
              IN  /\ item.entity \in DOMAIN sprite_batches
                  /\ h \in DOMAIN gpu_images
                  /\ SetSpriteTextureBindGroup(item, sprite_batches,
                                               image_bind_groups) # <<>>
                  /\ image_bind_groups[h].created = frame =>
                        image_bind_groups[h].texture_view =
                           gpu_images[h].texture_view

\* C11 witness: a frame with a sprite of an absent texture skipped, and an item
\* enqueued whose bind group was made in the frame after an event removed the
\* one cached before
C11_Witness ==
    /\ pc = "queued"
    /\ \E k \in DOMAIN log : ~log[k].written
    /\ \E v \in DOMAIN phases : \E i \in DOMAIN phases[v] :
          LET h == sprite_batches[phases[v][i].entity].image_handle_id
          IN  /\ h \in DOMAIN bind_groups_before
              /\ image_bind_groups[h].created = frame

\* C12: a queue_sprites pass without a view-uniform binding returns normally
\* having added no item to any phase, made no material bind group, specialized
\* no pipeline and left the stored view bind group as it was; a pass with a
\* binding replaces the view bind group by one made from it in this frame,
\* whatever happens later in the pass.
C12_NoUniformsNoQueueing ==
    [][(pc = "prepared" /\ pc' # "prepared") =>
          IF view_uniforms = <<>>
          THEN /\ pc' = "queued"
               /\ phases' = phases
               /\ pipelines' = pipelines
               /\ view_bind_group' = view_bind_group
               /\ \A h \in DOMAIN image_bind_groups' :
                     /\ h \in DOMAIN image_bind_groups
                     /\ image_bind_groups'[h] = image_bind_groups[h]
          ELSE view_bind_group' = <<ViewBindGroup(view_uniforms[1], frame)>>]_vars

\* C12 witness: a pass without a binding, over a batch and a view, that kept the
\* view bind group of an earlier frame
C12_Witness ==
    /\ pc = "queued"
    /\ view_uniforms = <<>>
    /\ sprite_batches # <<>>
    /\ phases # <<>>
    /\ view_bind_group # <<>>
    /\ \A v \in DOMAIN phases : phases[v] = <<>>

\* C13: with view uniforms available, queue_sprites adds to every view's phase
\* exactly one item per SpriteBatch, in batch order and nothing else: the item
\* of a batch has the COLORED-key pipeline iff the batch is colored (both
\* pipelines specialized for the frame's sample count), the batch's range as
\* batch_range, the batch's z_order as sort key and the batch's entity.
C13_OneItemPerBatch ==
    (pc = "queued" /\ view_uniforms # <<>>) =>
        \A v \in DOMAIN phases :
            /\ Len(phases[v]) = Len(sprite_batches)
            /\ \A i \in DOMAIN sprite_batches :
                  LET item == phases[v][i]
                  IN  /\ item.entity = i
                      /\ item.batch_range = <<sprite_batches[i].range>>
                      /\ item.sort_key = sprite_batches[i].z_order
                      /\ item.draw_function = "DrawSprite"
                      /\ item.pipeline \in pipelines
                      /\ MsaaSamples(item.pipeline) = msaa
                      /\ (COLORED_BITS \subseteq item.pipeline)
                            <=> sprite_batches[i].colored

\* C13 witness: a view whose phase received the items of a colored and of an
\* uncolored batch
C13_Witness ==
    /\ pc = "queued"
    /\ view_uniforms # <<>>
    /\ \E v \in DOMAIN phases : \E i, j \in DOMAIN phases[v] :
          /\ sprite_batches[i].colored
          /\ ~sprite_batches[j].colored
          /\ phases[v][i].pipeline # phases[v][j].pipeline

\* The positions in a query of the entities marked visible
VisibleIn(query) == {i \in DOMAIN query : query[i].is_visible}

\* The positions in the atlas query of the visible sprites whose atlas resolves
ResolvedIn(main_world) ==
    {i \in VisibleIn(main_world.atlas_query) :
        main_world.atlas_query[i].handle \in DOMAIN main_world.texture_atlases}

\* The number of positions of S up to i
RankIn(S, i) == Cardinality({j \in S : j <= i})

\* The records the latest extract_sprites call added to the list it found
Appended ==
    SubSeq(extracted_sprites, Len(extract_entry) + 1, Len(extracted_sprites))

\* The scenario of one visible white plain sprite and one visible white atlas
\* sprite of a valid index, over one resident texture, extracted into an empty
\* list and prepared
PlainAndAtlasScenario ==
    /\ pc = "prepared"
    /\ world # <<>>
    /\ extract_entry = <<>>
    /\ LET sq == world[1].sprite_query
           aq == world[1].atlas_query
           ta == world[1].texture_atlases
       IN  /\ Len(sq) = 1
           /\ Len(aq) = 1
           /\ sq[1].is_visible
           /\ aq[1].is_visible
           /\ sq[1].sprite.color = WHITE
           /\ aq[1].sprite.color = WHITE
           /\ sq[1].z = aq[1].z
           /\ aq[1].handle \in DOMAIN ta
           /\ aq[1].sprite.index < Len(ta[aq[1].handle].textures)
           /\ ta[aq[1].handle].texture = sq[1].handle
           /\ sq[1].handle \in DOMAIN gpu_images

\* C14 as stated: the scenario yields exactly one batch, of the uncolored
\* buffer, whose index range has length 6.
C14_ScenarioRangeOfSix ==
    PlainAndAtlasScenario =>
        /\ Len(sprite_batches) = 1
        /\ ~sprite_batches[1].colored
        /\ sprite_batches[1].range[2] - sprite_batches[1].range[1] = 6

\* C14 amended: the scenario yields exactly one batch, of the uncolored buffer,
\* whose index range has length 12, the 6 vertices of each of the two sprites.
C14_ScenarioOneBatchOfTwelve ==
    PlainAndAtlasScenario =>
        /\ Len(sprite_batches) = 1
        /\ ~sprite_batches[1].colored
        /\ sprite_batches[1].range[2] - sprite_batches[1].range[1] =
              2 * Len(QUAD_INDICES)

\* C14 witness: the scenario with an atlas whose identity differs from its
\* texture's
C14_Witness ==
    /\ PlainAndAtlasScenario
    /\ world[1].atlas_query[1].handle # world[1].sprite_query[1].handle

\* C15: a call of extract_sprites appends to the list it found exactly one
\* record per visible plain sprite, then one per visible atlas sprite whose
\* atlas resolves, in query order, and nothing else; a plain record carries the
\* entity's texture identity and no sub-rectangle, an atlas record the atlas's
\* texture identity and the sub-rectangle at the sprite's index.
C15_OneRecordPerVisibleSprite ==
    (pc \in {"extracted", "panic"} /\ world # <<>>) =>
        LET sq == world[1].sprite_query
            aq == world[1].atlas_query
            ta == world[1].texture_atlases
            plain == VisibleIn(sq)
            atlas == ResolvedIn(world[1])
        IN  /\ SubSeq(extracted_sprites, 1, Len(extract_entry)) = extract_entry
            /\ Len(Appended) = Cardinality(plain) + Cardinality(atlas)
            /\ \A i \in plain :
                  LET r == Appended[RankIn(plain, i)]
                  IN  /\ r.image_handle_id = sq[i].handle
                      /\ r.rect = <<>>
                      /\ r.color = sq[i].sprite.color
            /\ \A i \in atlas :
                  LET r == Appended[Cardinality(plain) + RankIn(atlas, i)]
                  IN  /\ r.image_handle_id = ta[aq[i].handle].texture
                      /\ r.rect = <<ta[aq[i].handle].textures[aq[i].sprite.index + 1]>>
                      /\ r.color = aq[i].sprite.color

\* C16: when a call of extract_sprites returns, the list holds the records of
\* the entities that call read and no record of an earlier extraction, whatever
\* calls of extract_sprites and prepare_sprites came before.
C16_ListHoldsLatestExtractionOnly ==
    (pc = "extracted" /\ world # <<>>) =>
        /\ Len(extracted_sprites) =
              Cardinality(VisibleIn(world[1].sprite_query))
                 + Cardinality(ResolvedIn(world[1]))
        /\ extracted_sprites = Appended

\* The list the sort left: the sprites drained so far, then the ones to come
SortedList == [k \in DOMAIN log |-> log[k].sprite] \o extracted_sprites

\* How many times x occurs in s
Occurrences(s, x) == Cardinality({i \in DOMAIN s : s[i] = x})

\* C17: the list prepare_sprites walks is a permutation of the list it was
\* given, with z non-decreasing and, among equal z, texture identity
\* non-decreasing; the written sprites' vertices lie in their buffer in that
\* order, 6 per sprite.
C17_SortedByDepthThenTexture ==
    pc \in {"loop", "prepared"} =>
        /\ Len(SortedList) = Len(prepare_input)
        /\ \A i \in DOMAIN prepare_input :
              Occurrences(SortedList, prepare_input[i]) =
                 Occurrences(prepare_input, prepare_input[i])
        /\ \A i, j \in DOMAIN SortedList :
              i < j =>
                 /\ SortedList[i].z <= SortedList[j].z
                 /\ SortedList[i].z = SortedList[j].z =>
                       SortedList[i].image_handle_id <= SortedList[j].image_handle_id
        /\ \A k \in Written :
              /\ log[k].first =
                    Len(QUAD_INDICES) *
                       Cardinality({j \in Written : j < k /\ log[j].colored = log[k].colored})
              /\ \A n \in 1..Len(QUAD_INDICES) :
                    BufferOf(log[k].colored)[log[k].first + n].position[3] =
                       log[k].sprite.z

\* C17 witness: a list given out of depth order and out of texture order, two
\* of whose sprites were written to one buffer
C17_Witness ==
    /\ pc = "prepared"
    /\ \E i, j \in DOMAIN prepare_input :
          i < j /\ prepare_input[i].z > prepare_input[j].z
    /\ \E i, j \in DOMAIN prepare_input :
          /\ i < j
          /\ prepare_input[i].z = prepare_input[j].z
          /\ prepare_input[i].image_handle_id > prepare_input[j].image_handle_id
    /\ \E j, k \in Written : j < k /\ log[j].colored = log[k].colored

\* C18: what prepare_sprites leaves depends on the sprites it is given and not
\* on their order: every order the sort can leave for a permutation of the
\* given list yields the batches and the two vertex buffers of this run, also
\* when sprites tie on z and texture identity and differ in colour.
C18_OutcomeIndependentOfOrder ==
    pc = "prepared" =>
        \A sorted \in SortUnstableBy(prepare_input) :
            PrepareOutcome(sorted, gpu_images) =
               [sprite_batches |-> sprite_batches, vertices |-> vertices,
                colored_vertices |-> colored_vertices]

\* The 4 corner UVs of written sprite k, read back from its 6 vertices
CornerUvs(k) ==
    LET buffer == BufferOf(log[k].colored)
        at(corner) == CHOOSE n \in 1..Len(QUAD_INDICES) : QUAD_INDICES[n] = corner
    IN  [i \in 1..4 |-> buffer[log[k].first + at(i - 1)].uv]

\* The corner tuples the flips produce from QUAD_UVS
CornerTuples ==
    {QUAD_UVS, FlipX(QUAD_UVS), FlipY(QUAD_UVS), FlipY(FlipX(QUAD_UVS))}

\* C19: the two flips commute on the 4 corner tuples, each is a permutation of
\* the corners that undoes itself, and the UVs written for a sprite are the
\* sub-rectangle remap of the flipped corners whichever flip is taken first.
C19_FlipsCommute ==
    /\ \A uvs \in CornerTuples :
          /\ FlipY(FlipX(uvs)) = FlipX(FlipY(uvs))
          /\ FlipX(FlipX(uvs)) = uvs
          /\ FlipY(FlipY(uvs)) = uvs
          /\ \A c \in {uvs[i] : i \in 1..4} :
                /\ Occurrences(FlipX(uvs), c) = Occurrences(uvs, c)
                /\ Occurrences(FlipY(uvs), c) = Occurrences(uvs, c)
    /\ \A k \in Written :
          LET sprite == log[k].sprite
              y_first == IF sprite.flip_y THEN FlipY(QUAD_UVS) ELSE QUAD_UVS
              uvs == IF sprite.flip_x THEN FlipX(y_first) ELSE y_first
          IN  CornerUvs(k) =
                 RemapUvs(uvs, sprite.rect, gpu_images[sprite.image_handle_id].size)

\* C19 witness: a sprite of a sub-rectangle, flipped both ways, was written
C19_Witness ==
    /\ pc = "prepared"
    /\ \E k \in Written :
          /\ log[k].sprite.flip_x
          /\ log[k].sprite.flip_y
          /\ log[k].sprite.rect # <<>>

\* C20: for the frame's sample count n, any of 1..64, from_msaa_samples(n) is
\* a key (from_bits is not None) whose set bits are among the top 6 of 32, with
\* the COLORED bit clear, whose msaa_samples() is n, also once COLORED is or-ed
\* in; every other count of 1..64 gives another key; queue_sprites does not
\* fail and the pipelines it specializes decode to n.
C20_MsaaKeyRoundTrip ==
    /\ LET key == FromMsaaSamples(msaa)
       IN  /\ key # <<>>
           /\ key[1] \subseteq {i \in 0..31 : i >= 32 - 6}
           /\ key[1] \cap COLORED_BITS = {}
           /\ MsaaSamples(key[1]) = msaa
           /\ MsaaSamples(WithColored(key[1])) = msaa
           /\ \A m \in MsaaSampleCounts : m # msaa => FromMsaaSamples(m) # key
    /\ pc # "panic"
    /\ pc = "queued" =>
          /\ pipelines = {FromMsaaSamples(msaa)[1],
                           WithColored(FromMsaaSamples(msaa)[1])}
          /\ \A key \in pipelines : MsaaSamples(key) = msaa

\* C20 witness: a pass at 64 samples specialized both pipelines
C20_Witness ==
    /\ pc = "queued"
    /\ msaa = MSAA_MASK_BITS + 1
    /\ Cardinality(pipelines) = 2
    /\ \E v \in DOMAIN phases : phases[v] # <<>>

\* The quad size of written sprite k, read back from the position written for
\* the corner (1, 1) of QUAD_VERTEX_POSITIONS; the sprite is anchored at the
\* centre
WrittenQuadSize(k) ==
    LET buffer == BufferOf(log[k].colored)
        corner == CHOOSE i \in 1..4 : QUAD_VERTEX_POSITIONS[i] = <<1, 1>>
        n == CHOOSE m \in 1..Len(QUAD_INDICES) : QUAD_INDICES[m] + 1 = corner
        position == buffer[log[k].first + n].position
    IN  <<position[1], position[2]>>

\* C21: the quad written for a sprite has the sprite's custom size when it has
\* one, else the size of its sub-rectangle when it has one, else the size the
\* GPU-texture lookup holds for the sprite's own texture identity, which is
\* never the zero placeholder.
C21_QuadSizePrecedence ==
    \A k \in Written :
        LET sprite == log[k].sprite
        IN  /\ WrittenQuadSize(k) =
                  (IF sprite.custom_size # <<>> THEN sprite.custom_size[1]
                   ELSE IF sprite.rect # <<>> THEN RectSize(sprite.rect[1])
                   ELSE gpu_images[sprite.image_handle_id].size)
            /\ (sprite.custom_size = <<>> /\ sprite.rect = <<>>) =>
                  WrittenQuadSize(k) # Vec2ZERO

\* C21 witness: a sprite with a sub-rectangle and a custom size was written,
\* then a sprite with neither, in the batch the first one opened
C21_Witness ==
    /\ pc = "prepared"
    /\ \E j, k \in Written :
          /\ j < k
          /\ SameBatchKey(j, k)
          /\ log[j].sprite.custom_size # <<>>
          /\ log[j].sprite.rect # <<>>
          /\ log[k].sprite.custom_size = <<>>
          /\ log[k].sprite.rect = <<>>

\* The vertex formats of a vertex as pushed: SpriteVertex is position and uv,
\* ColoredSpriteVertex is position, uv and color
VertexFormatsOf(vertex) ==
    <<"Float32x3", "Float32x2">> \o
       (IF "color" \in DOMAIN vertex THEN <<"Float32x4">> ELSE <<>>)

\* C22: for every item queue_sprites enqueued, the item's pipeline has the
\* COLORED bit (and so the position+uv+color layout and the COLORED shader def)
\* iff its batch is colored iff DrawSpriteBatch binds the colored vertex buffer,
\* and the batch's range lies in that buffer, over vertices of that layout that
\* written sprites of that colour mode pushed.
C22_LayoutBufferPipelineAgree ==
    pc = "queued" =>
        \A v \in DOMAIN phases : \A i \in DOMAIN phases[v] :
            LET item == phases[v][i]
                sprite_batch == sprite_batches[item.entity]
                descriptor == SpritePipelineSpecialize(item.pipeline)
                draw == DrawSpriteBatch(item, sprite_batches)
                buffer == BufferOf(draw.colored_buffer)
            IN  /\ (COLORED_BITS \subseteq item.pipeline) <=> sprite_batch.colored
                /\ draw.colored_buffer <=> sprite_batch.colored
                /\ descriptor.shader_defs =
                      (IF sprite_batch.colored THEN <<"COLORED">> ELSE <<>>)
                /\ draw.range = sprite_batch.range
                /\ 0 <= draw.range[1]
                /\ draw.range[2] <= Len(buffer)
                /\ \A n \in draw.range[1]..(draw.range[2] - 1) :
                      /\ VertexFormatsOf(buffer[n + 1]) = descriptor.formats
                      /\ \E k \in Written :
                            /\ log[k].colored = draw.colored_buffer
                            /\ log[k].first <= n
                            /\ n < log[k].first + Len(QUAD_INDICES)

\* C22 witness: a pass enqueued a draw of the colored buffer and a draw of the
\* uncolored buffer, both buffers holding vertices
C22_Witness ==
    /\ pc = "queued"
    /\ vertices # <<>>
    /\ colored_vertices # <<>>
    /\ \E v \in DOMAIN phases : \E i, j \in DOMAIN phases[v] :
          /\ DrawSpriteBatch(phases[v][i], sprite_batches).colored_buffer
          /\ ~DrawSpriteBatch(phases[v][j], sprite_batches).colored_buffer

\* The written sprites of a colour mode whose first vertex lies in a range
SpritesIn(colored, range) ==
    {k \in Written : /\ log[k].colored = colored
                     /\ range[1] <= log[k].first
                     /\ log[k].first < range[2]}

\* C23: throughout prepare_sprites, white_start <= white_end = length of the
\* uncolored buffer and colored_start <= colored_end = length of the colored
\* buffer, all four multiples of 6, each buffer holding 6 vertices per sprite
\* written in its colour mode; every emitted range starts and ends at multiples
\* of 6, is 6 times as long as the number of sprites in it and lies within the
\* buffer its colored flag selects.
C23_IndexBookkeeping ==
    pc \in {"loop", "prepared"} =>
        /\ white_start <= white_end
        /\ white_end = Len(vertices)
        /\ colored_start <= colored_end
        /\ colored_end = Len(colored_vertices)
        /\ \A x \in {white_start, white_end, colored_start, colored_end} :
              x >= 0 /\ x % 6 = 0
        /\ \A colored \in BOOLEAN :
              Len(BufferOf(colored)) =
                 6 * Cardinality({k \in Written : log[k].colored = colored})
        /\ \A i \in DOMAIN sprite_batches :
              LET range == sprite_batches[i].range
              IN  /\ range[1] % 6 = 0
                  /\ range[2] % 6 = 0
                  /\ 0 <= range[1]
                  /\ range[2] <= Len(BufferOf(sprite_batches[i].colored))
                  /\ range[2] - range[1] =
                        6 * Cardinality(SpritesIn(sprite_batches[i].colored, range))

\* C23 witness: in the loop, after an uncolored batch was emitted, with the next
\* uncolored range open and a sprite written to the colored buffer
C23_Witness ==
    /\ pc = "loop"
    /\ 0 < white_start
    /\ white_start < white_end
    /\ 0 < colored_end
    /\ sprite_batches # <<>>

\* C24: a step of the loop that skips a sprite, its lookup failing at a
\* boundary, leaves the current batch texture, colour mode, image size and
\* z_order, both start/end pairs, both vertex buffers and the emitted batches
\* as they were; and written sprites of one texture identity and colour mode
\* with only skipped sprites between them lie in one emitted batch when
\* prepare_sprites returns.
C24_SkipLeavesBatchingUnchanged ==
    /\ [][(/\ pc = "loop"
            /\ extracted_sprites # <<>>
            /\ SkipsSprite(LoopState, Head(extracted_sprites), gpu_images))
          => UNCHANGED <<prepare_locals, vertices, colored_vertices,
                         sprite_batches>>]_vars
    /\ [](pc = "prepared" =>
            \A j, k \in Written :
                (/\ j + 1 < k
                 /\ SameBatchKey(j, k)
                 /\ \A m \in (j + 1)..(k - 1) : ~log[m].written)
                => BatchesHolding(j) \cap BatchesHolding(k) # {})

\* Texture h has a Modified or Removed event in the frame's event list
HasInvalidatingEvent(h) ==
    \E e \in DOMAIN events :
        events[e].kind \in {"Modified", "Removed"} /\ events[e].handle = h

\* C25: after a queue_sprites pass, a bind group cached before the pass for a
\* texture with no Modified or Removed event in the frame is still cached, the
\* same object, and was not made again (so Created events change nothing);
\* create_bind_group ran at most once per texture in the pass, only with view
\* uniforms available and only for textures some batch references, and every
\* entry that is new or differs from the one cached before was made in the pass.
C25_BindGroupCacheReuse ==
    pc = "queued" =>
        /\ \A h \in DOMAIN bind_groups_before :
              ~HasInvalidatingEvent(h) =>
                 /\ h \in DOMAIN image_bind_groups
                 /\ image_bind_groups[h] = bind_groups_before[h]
                 /\ Occurrences(bind_groups_made, h) = 0
        /\ \A n \in DOMAIN bind_groups_made :
              /\ Occurrences(bind_groups_made, bind_groups_made[n]) = 1
              /\ view_uniforms # <<>>
              /\ \E i \in DOMAIN sprite_batches :
                    sprite_batches[i].image_handle_id = bind_groups_made[n]
        /\ \A h \in DOMAIN image_bind_groups :
              (h \notin DOMAIN bind_groups_before
                  \/ image_bind_groups[h] # bind_groups_before[h])
              => Occurrences(bind_groups_made, h) = 1

\* C25 witness: a pass over two batches of one texture made its bind group,
\* while the bind group of another texture, named by a Created event, stayed
C25_Witness ==
    /\ pc = "queued"
    /\ \E i, j \in DOMAIN sprite_batches :
          /\ i # j
          /\ sprite_batches[i].image_handle_id = sprite_batches[j].image_handle_id
          /\ Occurrences(bind_groups_made, sprite_batches[i].image_handle_id) = 1
    /\ \E e \in DOMAIN events :
          /\ events[e].kind = "Created"
          /\ events[e].handle \in DOMAIN bind_groups_before
          /\ events[e].handle \in DOMAIN image_bind_groups

\* C26: extract_sprites returns on every main world, also one with a visible
\* atlas sprite whose atlas resolves and whose index is not a position of the
\* atlas's sub-rectangles; each visible atlas sprite then has its record in
\* the list or was skipped.
C26_ExtractionNeverCrashes ==
    world # <<>> =>
        /\ pc # "panic"
        /\ pc = "extracted" =>
              /\ Len(Appended) >= Cardinality(VisibleIn(world[1].sprite_query))
              /\ Len(Appended) <= Cardinality(VisibleIn(world[1].sprite_query))
                                     + Cardinality(VisibleIn(world[1].atlas_query))

\* The 6 vertices the buffer holds for written sprite k
VerticesOf(k) ==
    SubSeq(BufferOf(log[k].colored), log[k].first + 1,
           log[k].first + Len(QUAD_INDICES))

\* C27: when prepare_sprites returns, in any frame, the extracted list is
\* empty and each vertex buffer holds exactly the vertices of the sprites this
\* call wrote in its colour mode, 6 per sprite in the order written and
\* counted from index 0, computed with the size of the sprite's texture.
C27_PrepareIsFrameLocal ==
    pc = "prepared" =>
        /\ extracted_sprites = <<>>
        /\ Len(log) = Len(prepare_input)
        /\ \A colored \in BOOLEAN :
              Len(BufferOf(colored)) =
                 Len(QUAD_INDICES) *
                    Cardinality({k \in Written : log[k].colored = colored})
        /\ \A k \in Written :
              LET size == gpu_images[log[k].sprite.image_handle_id].size
              IN  /\ log[k].first =
                        Len(QUAD_INDICES) *
                           Cardinality({j \in Written :
                                           j < k /\ log[j].colored = log[k].colored})
                  /\ VerticesOf(k) =
                        (IF log[k].colored
                         THEN ColoredSpriteVertices(log[k].sprite, size)
                         ELSE SpriteVertices(log[k].sprite, size))
        /\ \A i \in DOMAIN sprite_batches :
              sprite_batches[i].range[2] <=
                 Len(BufferOf(sprite_batches[i].colored))

\* C27 witness: prepare_sprites returned in a later frame having written a
\* sprite, after an earlier frame drew a batch and so had filled a buffer
C27_Witness ==
    /\ pc = "prepared"
    /\ frame > 1
    /\ Written # {}
    /\ \E h \in DOMAIN image_bind_groups : image_bind_groups[h].created < frame


\* The entities of a list that satisfy a test, in the order of the list
RECURSIVE KeepIn(_, _)
KeepIn(list, keep) ==
    IF list = <<>> THEN <<>>
    ELSE (IF Head(list) \in keep THEN <<Head(list)>> ELSE <<>>) \o KeepIn(Tail(list), keep)

\* The nodes that can be reported for a camera: matched by the node query,
\* view-visible, of a size other than zero, and resolving to the camera
ReportableOn(camera) ==
    {e \in DOMAIN ui_world.node_query :
        /\ ui_world.node_query[e].view_visibility = <<TRUE>>
        /\ CameraOf(ui_world.node_query[e], ui_world.default_ui_camera) = <<camera>>
        /\ RectSize(ui_world.node_query[e].rect) # Vec2ZERO}

\* The nodes under a pointer on a camera, topmost first: UiStack in reverse
UnderPointer(camera, pointer) ==
    LET positions == PointerPosByCamera(ui_world)
    IN  IF camera \notin DOMAIN positions \/ pointer \notin DOMAIN positions[camera]
        THEN <<>>
        ELSE KeepIn(Reverse(ui_world.ui_stack),
                    {e \in ReportableOn(camera) :
                        IsHit(ui_world.node_query[e], positions[camera][pointer])})

\* A node that ends the report: flagged should_block_lower, or without Pickable
EndsReport(e) ==
    \/ ui_world.node_query[e].pickable = <<>>
    \/ ui_world.node_query[e].pickable[1].should_block_lower

\* The prefix of a list up to and including its first node that ends the report
UpToFirstBlocking(list) ==
    LET ending == {i \in 1..Len(list) : EndsReport(list[i])}
    IN  IF ending = {} THEN list
        ELSE SubSeq(list, 1, CHOOSE i \in ending : \A j \in ending : i <= j)

\* The entities of the picks of an event, in the order sent
PickedEntities(event) == [i \in 1..Len(event.picks) |-> event.picks[i].entity]

\* ui_picking has returned
PickingReturned ==
    pc = "ui_hit_test" /\ uinodes_left = <<>> /\ DOMAIN hit_nodes \subseteq Sent

====
